---- MODULE Spec2Model ----
(***************************************************************************)
(* The reactive control graph of dstack.app.controls (Control, TextField,  *)
(* ComboBox, Slider, FileUpload, Apply, Controller) as a state machine.    *)
(* Python values are tagged records, so that None, "0", 0 and False stay   *)
(* distinct and Python's truthiness is computed and not assumed.           *)
(***************************************************************************)
EXTENDS Integers, Sequences, FiniteSets, TLC

\* ---------------------------------------------------------------- bounds
\* number of calls made on one Controller in a run
MaxCalls == 3
\* number of views a caller edits in a run
MaxEdits == 2
\* largest integer whose decimal form int() is asked to parse
MaxInt == 16

\* ---------------------------------------------------------- Python values
None == [t |-> "None"]
VStr(s) == [t |-> "str", s |-> s]
VInt(n) == [t |-> "int", n |-> n]
VBool(b) == [t |-> "bool", b |-> b]
VList(xs) == [t |-> "list", xs |-> xs]
Stream(name) == [t |-> "stream", name |-> name]
\* a callable; arity is the number of parameters inspect.signature reports
Fn(f, arity) == [t |-> "func", f |-> f, arity |-> arity]

\* bool(v)
Truthy(v) ==
  CASE v.t = "None" -> FALSE
    [] v.t = "str" -> v.s # ""
    [] v.t = "int" -> v.n # 0
    [] v.t = "bool" -> v.b
    [] v.t = "list" -> Len(v.xs) > 0
    [] OTHER -> TRUE

\* a or b
PyOr(a, b) == IF Truthy(a) THEN a ELSE b

Digits == <<"0", "1", "2", "3", "4", "5", "6", "7", "8", "9">>

\* str(n) of an integer
RECURSIVE IntToStr(_)
IntToStr(n) ==
  IF n < 0 THEN "-" \o IntToStr(-n)
  ELSE IF n < 10 THEN Digits[n + 1]
  ELSE IntToStr(n \div 10) \o Digits[(n % 10) + 1]

IntStrs == [n \in 0..MaxInt |-> IntToStr(n)]

\* int(v): [ok, n]; a str that is no decimal numeral raises ValueError, None
\* raises TypeError
PyInt(v) ==
  IF v.t = "int" THEN [ok |-> TRUE, n |-> v.n]
  ELSE IF v.t = "str" /\ (\E n \in 0..MaxInt : IntStrs[n] = v.s)
       THEN [ok |-> TRUE, n |-> CHOOSE n \in 0..MaxInt : IntStrs[n] = v.s]
  ELSE [ok |-> FALSE, n |-> 0]

\* ", ".join(xs)
RECURSIVE Joined(_)
Joined(xs) ==
  IF xs = <<>> THEN ""
  ELSE IF Len(xs) = 1 THEN xs[1]
  ELSE xs[1] \o ", " \o Joined(Tail(xs))

\* repr(v) of None, a bool, an int, a str without quotes or escapes, or a
\* list of these
RECURSIVE PyRepr(_)
PyRepr(v) ==
  CASE v.t = "None" -> "None"
    [] v.t = "bool" -> IF v.b THEN "True" ELSE "False"
    [] v.t = "int" -> IntToStr(v.n)
    [] v.t = "str" -> "'" \o v.s \o "'"
    [] v.t = "list" -> "[" \o Joined([i \in 1..Len(v.xs) |-> PyRepr(v.xs[i])]) \o "]"

\* str(v): the text itself for a str, repr(v) for the others
PyStr(v) == IF v.t = "str" THEN v.s ELSE PyRepr(v)

\* xs[i] with Python's negative indices
PyIndexOk(xs, i) == -Len(xs) <= i /\ i < Len(xs)
PyIndex(xs, i) == IF i >= 0 THEN xs[i + 1] ELSE xs[Len(xs) + i + 1]

\* ------------------------------------------------------------- exceptions
NoErr == [t |-> "ok", id |-> ""]
Err(type, id) == [t |-> type, id |-> id]

\* ------------------------------------------------------------------ views
\* View.__init__: optional = optional or False
ViewBase(type, id, enabled, label, optional) ==
  [type |-> type, id |-> id, enabled |-> enabled, label |-> label,
   optional |-> PyOr(optional, VBool(FALSE))]

TextFieldView(id, enabled, label, optional, data) ==
  ViewBase("TextFieldView", id, enabled, label, optional) @@ [data |-> data]

ComboBoxView(id, enabled, label, optional, selected, titles) ==
  ViewBase("ComboBoxView", id, enabled, label, optional)
    @@ [titles |-> titles, selected |-> selected]

SliderView(id, enabled, label, selected, data) ==
  ViewBase("SliderView", id, enabled, label, VBool(FALSE))
    @@ [data |-> data, selected |-> selected]

FileUploadView(id, enabled, label, optional, is_text, stream) ==
  ViewBase("FileUploadView", id, enabled, label, optional)
    @@ [is_text |-> is_text, stream |-> stream]

ApplyView(id, enabled, label, optional) ==
  ViewBase("ApplyView", id, enabled, label, optional)

\* --------------------------------------------------------------- controls
\* _update_func_or_data: a callable of two parameters is the update function
UpdateFuncOrData(data) ==
  IF data.t = "func" /\ data.arity = 2 THEN <<data, None>> ELSE <<None, data>>

\* Control.__init__ (ids are always given, but for the synthesized Apply)
Control(kind, label, id, depends, update_func, require_apply, optional) ==
  [kind |-> kind, label |-> label, enabled |-> VBool(TRUE), id |-> id,
   parents |-> depends, update_func |-> update_func,
   require_apply |-> require_apply, optional |-> optional,
   pending_view |-> None, dirty |-> TRUE]

\* validator is None or the name of the conversion of a FunctionalValidator
\* made for this control: validator_obj names the validator object,
\* validator_id is the _id the constructor's validator.bind(self) gave it
TextField(data, id, depends, validator, optional) ==
  Control("TextField", None, id, depends, UpdateFuncOrData(data)[1], TRUE, optional)
    @@ [data |-> UpdateFuncOrData(data)[2], validator |-> validator,
        validator_obj |-> IF validator = None THEN None ELSE VStr(id),
        validator_id |-> IF validator = None THEN None ELSE VStr(id),
        validated_value |-> None]

\* Validator.bind(control) on the validator object v, cs being the controls
\* by position or by id: self._id = control.get_id(), which every control
\* that holds the object sees
Bind(cs, v, id) ==
  [k \in DOMAIN cs |->
     IF cs[k].kind = "TextField" /\ cs[k].validator_obj = v
     THEN [cs[k] EXCEPT !.validator_id = VStr(id)] ELSE cs[k]]

\* c1 = TextField(..., validator=v); c2 = TextField(..., validator=v): the
\* second constructor binds the object of the first again
SharedValidator(c1, c2) ==
  Bind(<<c1, [c2 EXCEPT !.validator_obj = c1.validator_obj]>>, c1.validator_obj, c2.id)

ComboBox(data, selected, id, depends, optional) ==
  Control("ComboBox", None, id, depends, UpdateFuncOrData(data)[1], FALSE, optional)
    @@ [data |-> UpdateFuncOrData(data)[2], selected |-> VInt(selected)]

Slider(data, selected, id) ==
  Control("Slider", None, id, <<>>, None, FALSE, VBool(FALSE))
    @@ [data |-> data, selected |-> VInt(selected)]

FileUpload(id, depends, update_func, optional) ==
  Control("FileUpload", None, id, depends, update_func, TRUE, optional)
    @@ [is_text |-> VBool(TRUE), stream |-> None]

Apply(id) ==
  Control("Apply", None, id, <<>>, None, FALSE, VBool(FALSE))

is_dependent(c) == Len(c.parents) > 0

is_apply_required(c) == is_dependent(c) \/ c.require_apply

\* ------------------------------------------------------ ComboBox.get_model
\* The callables of no parameters the callers hand to a ComboBox as data
\* (they are inputs of the program): data() returns [ok, v], ok = FALSE when
\* the call raises, as it does for a callable that wants arguments.
\*   hello   return ["H", "W"]
CallData(data) ==
  IF data.arity = 0 /\ data.f = "hello"
  THEN [ok |-> TRUE, v |-> VList(<<VStr("H"), VStr("W")>>)]
  ELSE [ok |-> FALSE, v |-> None]

\* ComboBox.get_model: [err, data], data being the list of the model.  A list
\* gives a DefaultListModel of that list, a callable a CallableListModel of
\* what the call returns, anything else raises ValueError("Unsupported data
\* type")
GetModel(c) ==
  IF c.data.t = "list" THEN [err |-> NoErr, data |-> c.data]
  ELSE IF c.data.t = "func"
  THEN IF CallData(c.data).ok THEN [err |-> NoErr, data |-> CallData(c.data).v]
       ELSE [err |-> Err("TypeError", c.id), data |-> None]
  ELSE [err |-> Err("ValueError", c.id), data |-> None]
HasModel(c) == GetModel(c).err = NoErr

\* ------------------------------------------------------- update functions
\* The update functions the callers of the library hand to a control (they
\* are inputs of the program): c is the control, ps its parents, n the number
\* of earlier invocations of the function.  [ok, c]: ok = FALSE when the
\* function raises.
\*   double  control.data = str(int(parents[0].data) * 2)
\*   once    as double, but raises on every invocation after the first
\*   raise   raises
\*   const   control.data = "1"
\*   items   s = parent.data[parent.selected]; control.data = [s + " 1", s + " 2"]
\*   cities  s = parent.get_model().element(parent.selected);
\*           control.data = [s + " 1", s + " 2"]
UpdateFunc(f, c, ps, n) ==
  CASE f = "double" ->
         IF Len(ps) > 0 /\ PyInt(ps[1].data).ok
         THEN [ok |-> TRUE, c |-> [c EXCEPT !.data = VStr(IntToStr(PyInt(ps[1].data).n * 2))]]
         ELSE [ok |-> FALSE, c |-> c]
    [] f = "once" ->
         IF n = 0 /\ Len(ps) > 0 /\ PyInt(ps[1].data).ok
         THEN [ok |-> TRUE, c |-> [c EXCEPT !.data = VStr(IntToStr(PyInt(ps[1].data).n * 2))]]
         ELSE [ok |-> FALSE, c |-> c]
    [] f = "const" -> [ok |-> TRUE, c |-> [c EXCEPT !.data = VStr("1")]]
    [] f = "items" ->
         IF Len(ps) > 0 /\ ps[1].data.t = "list"
            /\ PyIndexOk(ps[1].data.xs, ps[1].selected.n)
         THEN LET s == PyStr(PyIndex(ps[1].data.xs, ps[1].selected.n))
              IN [ok |-> TRUE,
                  c |-> [c EXCEPT !.data = VList(<<VStr(s \o " 1"), VStr(s \o " 2")>>)]]
         ELSE [ok |-> FALSE, c |-> c]
    [] f = "cities" ->
         IF Len(ps) > 0 /\ ps[1].kind = "ComboBox" /\ HasModel(ps[1])
            /\ PyIndexOk(GetModel(ps[1]).data.xs, ps[1].selected.n)
         THEN LET s == PyStr(PyIndex(GetModel(ps[1]).data.xs, ps[1].selected.n))
              IN [ok |-> TRUE,
                  c |-> [c EXCEPT !.data = VList(<<VStr(s \o " 1"), VStr(s \o " 2")>>)]]
         ELSE [ok |-> FALSE, c |-> c]
    [] OTHER -> [ok |-> FALSE, c |-> c]

\* ------------------------------------------------- the interpreter's state
\* S = [ctl, map, cnt, log, err, ret]: the controls, the Controller's map (the
\* ids in insertion order), the number of invocations of each control's update
\* function, the events of the running call, the exception in flight (NoErr
\* when none) and the value returned.
SetErr(S, e) == [S EXCEPT !.err = e]
SetRet(S, v) == [S EXCEPT !.ret = v]
Failed(S) == S.err # NoErr

\* ------------------------------------------------------ Control._update()
ViewTypeOf(kind) == kind \o "View"

\* the assertions of _apply: isinstance(view, <Kind>View) and id == view.id
ApplyAsserts(c, view) == view.type = ViewTypeOf(c.kind) /\ view.id = c.id

\* _apply(view): copy the view's fields into the control
ApplyInternal(c, view) ==
  CASE c.kind = "TextField" -> [c EXCEPT !.data = view.data]
    [] c.kind = "ComboBox" -> [c EXCEPT !.selected = view.selected]
    [] c.kind = "Slider" -> [c EXCEPT !.selected = view.selected]
    [] c.kind = "FileUpload" -> [c EXCEPT !.is_text = view.is_text, !.stream = view.stream]
    [] OTHER -> c

\* if self._pending_view: _apply; _pending_view = None; _dirty = True
ApplyPending(id, S) ==
  LET c == S.ctl[id] IN
  IF c.pending_view = None THEN S
  ELSE IF ~ApplyAsserts(c, c.pending_view) THEN SetErr(S, Err("AssertionError", id))
  ELSE [S EXCEPT !.ctl[id] =
          [ApplyInternal(c, c.pending_view) EXCEPT !.pending_view = None, !.dirty = TRUE]]

\* a parent is settled when it holds no pending view and, if it has an update
\* function, is not dirty
Settled(c) == c.pending_view = None /\ (c.update_func = None \/ ~c.dirty)

\* the event logged when the update function of control id is invoked: the
\* control's dirty flag and the controls that are settled at that moment
FuncEvent(id, S) ==
  [e |-> "func", id |-> id, dirty |-> S.ctl[id].dirty,
   settled |-> {p \in DOMAIN S.ctl : Settled(S.ctl[p])}]

\* the update function of control id applied to the control and its parents
CallUpdateFunc(id, S) ==
  LET c == S.ctl[id]
  IN UpdateFunc(c.update_func.f, c, [i \in 1..Len(c.parents) |-> S.ctl[c.parents[i]]],
                S.cnt[id])

\* the invocation is counted and logged
Invoked(id, S) == [S EXCEPT !.cnt[id] = @ + 1, !.log = Append(@, FuncEvent(id, S))]

\* try: ...; self._dirty = False
\* except Exception as e: raise UpdateError(e, self._id)
\* r is what the update function did, S1 the state in which it was invoked
AfterUpdateFunc(id, S1, r) ==
  IF r.ok THEN [S1 EXCEPT !.ctl[id] = [r.c EXCEPT !.dirty = FALSE]]
  ELSE SetErr(S1, Err("UpdateError", id))

\* variant: the dirty flag is not cleared after the update function returned
AfterUpdateFuncNoClear(id, S1, r) ==
  IF r.ok THEN [S1 EXCEPT !.ctl[id] = r.c]
  ELSE SetErr(S1, Err("UpdateError", id))

\* variant: the dirty flag is cleared also when the update function raised
AfterUpdateFuncClearAlways(id, S1, r) ==
  IF r.ok THEN [S1 EXCEPT !.ctl[id] = [r.c EXCEPT !.dirty = FALSE]]
  ELSE SetErr([S1 EXCEPT !.ctl[id].dirty = FALSE], Err("UpdateError", id))

\* variant: the dirty flag is cleared in a finally clause
InvokeClearOnFail(id, S) ==
  IF ~S.ctl[id].dirty THEN S
  ELSE AfterUpdateFuncClearAlways(id, Invoked(id, S), CallUpdateFunc(id, S))

\* variant: the update function is invoked whether or not the control is dirty
InvokeAlways(id, S) ==
  AfterUpdateFunc(id, Invoked(id, S), CallUpdateFunc(id, S))

\* variant: the dirty flag is not cleared after the update function returned
InvokeNoClear(id, S) ==
  IF ~S.ctl[id].dirty THEN S
  ELSE AfterUpdateFuncNoClear(id, Invoked(id, S), CallUpdateFunc(id, S))

\* if self._dirty: try: update_func(self, parents); _dirty = False
\*                 except Exception as e: raise UpdateError(e, self._id)
InvokeUpdateFunc(id, S) ==
  IF ~S.ctl[id].dirty THEN S
  ELSE AfterUpdateFunc(id, Invoked(id, S), CallUpdateFunc(id, S))

RECURSIVE Update(_, _)
RECURSIVE UpdateParents(_, _, _)

\* for p in self._parents: p._update()
UpdateParents(ps, i, S) ==
  IF i > Len(ps) \/ Failed(S) THEN S
  ELSE UpdateParents(ps, i + 1, Update(ps[i], S))

\* the control's own update function, S1 being the state the loop over the
\* parents left: an exception of a parent's _update() propagates
OwnUpdateFunc(id, S1) == IF Failed(S1) THEN S1 ELSE InvokeUpdateFunc(id, S1)

\* variant: the loop over the parents runs after the own update function
ParentsAfter(id, S1) ==
  IF Failed(S1) THEN S1 ELSE UpdateParents(S1.ctl[id].parents, 1, S1)

\* variant: a parent's exception is wrapped with the child's id
OwnUpdateFuncWrapped(id, S1) ==
  IF Failed(S1) THEN SetErr(S1, Err("UpdateError", id)) ELSE InvokeUpdateFunc(id, S1)

\* variant: the control's own update function runs before its parents are
\* updated
ResolveSelfFirst(id, S) == ParentsAfter(id, InvokeUpdateFunc(id, S))

\* variant: the try block also encloses the loop over the parents, so that a
\* parent's UpdateError is wrapped again with the child's id
ResolveWrapped(id, S) == OwnUpdateFuncWrapped(id, UpdateParents(S.ctl[id].parents, 1, S))

\* if self._update_func: parents first, then the control's own function
Resolve(id, S) == OwnUpdateFunc(id, UpdateParents(S.ctl[id].parents, 1, S))

\* _update() is entered
Enter(id, S) == [S EXCEPT !.log = Append(@, [e |-> "enter", id |-> id])]

\* if self._update_func: ..., S1 being the state after the pending view was
\* applied
ResolveIfFunc(id, S1) ==
  IF Failed(S1) \/ S1.ctl[id].update_func = None THEN S1 ELSE Resolve(id, S1)

\* _update() returns, unless an exception is in flight
Exit(id, S2) ==
  IF Failed(S2) THEN S2 ELSE [S2 EXCEPT !.log = Append(@, [e |-> "exit", id |-> id])]

\* Control._update()
Update(id, S) == Exit(id, ResolveIfFunc(id, ApplyPending(id, Enter(id, S))))

\* ------------------------------------------------------------ validation
\* FunctionalValidator.validate: try: return func(value)
\*                               except Exception as cause: raise ValidationError(cause, self._id)
ValidatorFunc(f, value) ==
  IF f = "int" /\ PyInt(value).ok THEN [ok |-> TRUE, v |-> VInt(PyInt(value).n)]
  ELSE [ok |-> FALSE, v |-> None]

\* _validate(view): only a TextField with a validator validates
\* r is what the validator returned
Validated(id, S, r) ==
  IF r.ok THEN [S EXCEPT !.ctl[id].validated_value = r.v]
  ELSE SetErr(S, Err("ValidationError", S.ctl[id].validator_id.s))

Validate(id, view, S) ==
  IF S.ctl[id].kind # "TextField" \/ S.ctl[id].validator = None THEN S
  ELSE IF "data" \notin DOMAIN view THEN SetErr(S, Err("AttributeError", id))
  ELSE Validated(id, S, ValidatorFunc(S.ctl[id].validator.s, view.data))

\* variant: the pending view is stored before the view is validated
ControlApplyStoreFirst(id, view, S) ==
  Validate(id, view, [S EXCEPT !.ctl[id].pending_view = view])

\* self._pending_view = view, S1 being the state _validate left
StorePending(id, view, S1) ==
  IF Failed(S1) THEN S1 ELSE [S1 EXCEPT !.ctl[id].pending_view = view]

\* Control.apply(view): self._validate(view); self._pending_view = view
ControlApply(id, view, S) == StorePending(id, view, Validate(id, view, S))

\* ------------------------------------------------------- value() and view()
\* ListModel.titles with the default title function str(item)
Titles(c) == VList([i \in 1..Len(GetModel(c).data.xs) |->
                      VStr(PyStr(GetModel(c).data.xs[i]))])

\* _value() of every kind but Apply's scan
ValueInternal(id, S) ==
  LET c == S.ctl[id] IN
  CASE c.kind = "TextField" -> SetRet(S, PyOr(c.validated_value, c.data))
    [] c.kind = "ComboBox" ->
         IF ~HasModel(c) THEN SetErr(S, GetModel(c).err)
         ELSE IF c.selected.n >= 0
              THEN IF PyIndexOk(GetModel(c).data.xs, c.selected.n)
                   THEN SetRet(S, PyIndex(GetModel(c).data.xs, c.selected.n))
                   ELSE SetErr(S, Err("IndexError", id))
              ELSE SetRet(S, None)
    [] c.kind = "Slider" ->
         IF PyIndexOk(c.data.xs, c.selected.n)
         THEN SetRet(S, PyIndex(c.data.xs, c.selected.n))
         ELSE SetErr(S, Err("IndexError", id))
    [] c.kind = "FileUpload" -> SetRet(S, c.stream)
    [] OTHER -> SetRet(S, None)

\* return self._value(), S1 being the state _update() left
ValueAfterUpdate(id, S1) == IF Failed(S1) THEN S1 ELSE ValueInternal(id, S1)

\* Control.value(): self._update(); return self._value()
Value(id, S) == ValueAfterUpdate(id, Update(id, S))

\* variant of Apply._view's loop: optional controls are not skipped
RECURSIVE ApplyEnabledStrict(_, _, _)
ApplyEnabledStrictNext(self, i, S1) ==
  IF Failed(S1) THEN S1
  ELSE IF S1.ret = None THEN SetRet(S1, VBool(FALSE))
  ELSE ApplyEnabledStrict(self, i + 1, S1)

ApplyEnabledStrict(self, i, S) ==
  IF i > Len(S.map) THEN SetRet(S, VBool(TRUE))
  ELSE IF S.map[i] = self THEN ApplyEnabledStrict(self, i + 1, S)
  ELSE ApplyEnabledStrictNext(self, i, Value(S.map[i], S))

\* Apply._view's loop over controller.map.values(), from position i on:
\* enabled = False at the first other control that is not optional and whose
\* value() is None
RECURSIVE ApplyEnabled(_, _, _)
\* if control.value() is None: enabled = False; break
\* S1 is the state control.value() left
ApplyEnabledNext(self, i, S1) ==
  IF Failed(S1) THEN S1
  ELSE IF S1.ret = None THEN SetRet(S1, VBool(FALSE))
  ELSE ApplyEnabled(self, i + 1, S1)

ApplyEnabled(self, i, S) ==
  IF i > Len(S.map) THEN SetRet(S, VBool(TRUE))
  ELSE IF S.map[i] = self \/ Truthy(S.ctl[S.map[i]].optional)
       THEN ApplyEnabled(self, i + 1, S)
  ELSE ApplyEnabledNext(self, i, Value(S.map[i], S))

\* ApplyView(self._id, enabled, self.label, False), S1 being the state the
\* scan left and S1.ret its result
ApplyViewOf(c, S1) ==
  IF Failed(S1) THEN S1 ELSE SetRet(S1, ApplyView(c.id, S1.ret, c.label, VBool(FALSE)))

\* _view() of every kind
ViewInternal(id, S) ==
  LET c == S.ctl[id] IN
  CASE c.kind = "TextField" ->
         SetRet(S, TextFieldView(c.id, c.enabled, c.label, c.optional, c.data))
    [] c.kind = "ComboBox" ->
         IF HasModel(c)
         THEN SetRet(S, ComboBoxView(c.id, c.enabled, c.label, c.optional, c.selected, Titles(c)))
         ELSE SetErr(S, GetModel(c).err)
    [] c.kind = "Slider" -> SetRet(S, SliderView(c.id, c.enabled, c.label, c.selected, c.data))
    [] c.kind = "FileUpload" ->
         SetRet(S, FileUploadView(c.id, c.enabled, c.label, c.optional, c.is_text, None))
    [] OTHER -> ApplyViewOf(c, ApplyEnabled(id, 1, S))

\* return self._view(), S1 being the state _update() left
ViewAfterUpdate(id, S1) == IF Failed(S1) THEN S1 ELSE ViewInternal(id, S1)

\* Control.view(): self._update(); return self._view()
View(id, S) == ViewAfterUpdate(id, Update(id, S))

\* -------------------------------------------------------------- Controller
\* the loop of Controller.__init__ over the controls, from position i on
\* variant: a second Apply control is accepted
RECURSIVE ControllerLoopNoCheck(_, _, _)
ControllerLoopNoCheck(cs, i, K) ==
  IF i > Len(cs) \/ K.err # NoErr THEN K
  ELSE ControllerLoopNoCheck(cs, i + 1,
         [K EXCEPT !.require_apply = is_apply_required(cs[i]),
                   !.has_apply = @ \/ cs[i].kind = "Apply",
                   !.map = IF \E j \in 1..Len(@) : @[j] = cs[i].id THEN @
                           ELSE Append(@, cs[i].id)])

RECURSIVE ControllerLoop(_, _, _)
ControllerLoop(cs, i, K) ==
  IF i > Len(cs) \/ K.err # NoErr THEN K
  ELSE LET c == cs[i]
           K1 == [K EXCEPT !.require_apply = is_apply_required(c)]
       IN IF c.kind = "Apply" /\ K.has_apply
          THEN [K1 EXCEPT !.err = Err("ValueError", c.id)]
          ELSE ControllerLoop(cs, i + 1,
                 [K1 EXCEPT !.has_apply = @ \/ c.kind = "Apply",
                            !.map = IF \E j \in 1..Len(@) : @[j] = c.id THEN @
                                    ELSE Append(@, c.id)])

\* the id uuid4() gives the synthesized Apply control
SynthId == "uuid"

\* if require_apply and not has_apply: the Apply control is synthesized; K is
\* what the loop left.  [err, map, ids, synth]; synth tells that the Apply
\* control was synthesized
SynthApply(cs, K) ==
  LET synth == K.err = NoErr /\ K.require_apply /\ ~K.has_apply
  IN [err |-> K.err, synth |-> synth,
      map |-> IF synth THEN Append(K.map, SynthId) ELSE K.map,
      ids |-> [i \in 1..Len(cs) |-> cs[i].id]]

\* Controller.__init__
Controller(cs) ==
  SynthApply(cs, ControllerLoop(cs, 1, [require_apply |-> FALSE, has_apply |-> FALSE,
                                        map |-> <<>>, err |-> NoErr]))

\* variant: a view whose id is not in the map is skipped
RECURSIVE ApplyViewsSkipUnknown(_, _, _)
ApplyViewsSkipUnknown(views, i, S) ==
  IF i > Len(views) \/ Failed(S) THEN S
  ELSE IF ~\E j \in 1..Len(S.map) : S.map[j] = views[i].id
       THEN ApplyViewsSkipUnknown(views, i + 1, S)
       ELSE ApplyViewsSkipUnknown(views, i + 1, ControlApply(views[i].id, views[i], S))

\* for view in views: self.map[view.id].apply(view)
RECURSIVE ApplyViews(_, _, _)
ApplyViews(views, i, S) ==
  IF i > Len(views) \/ Failed(S) THEN S
  ELSE IF ~\E j \in 1..Len(S.map) : S.map[j] = views[i].id
       THEN SetErr(S, Err("KeyError", views[i].id))
       ELSE ApplyViews(views, i + 1, ControlApply(views[i].id, views[i], S))

\* [c.view() for c in self.map.values()], from position i on
RECURSIVE ViewAll(_, _, _)
ViewAllNext(i, acc, S1) ==
  IF Failed(S1) THEN S1 ELSE ViewAll(i + 1, Append(acc, S1.ret), S1)

ViewAll(i, acc, S) ==
  IF Failed(S) THEN S
  ELSE IF i > Len(S.map) THEN SetRet(S, VList(acc))
  ELSE ViewAllNext(i, acc, View(S.map[i], S))

\* Controller.list(views): views = views or []
ControllerList(views, S) ==
  ViewAll(1, <<>>, ApplyViews(IF Truthy(views) THEN views.xs ELSE <<>>, 1, S))

\* ------------------------------------------------------------ the inputs
Double == Fn("double", 2)
Hello == VList(<<VStr("H"), VStr("W")>>)
Floats == VList(<<VInt(1), VInt(2)>>)
IntV == VStr("int")

\* The control lists handed to Controller(...), in registration order.  A
\* parent is constructed before its child (depends= takes the parent object),
\* so the graphs are acyclic; the registration order is free.

\* forms: at most two controls besides Apply
Forms ==
  { \* test_validator, test_apply_button_enabled
    <<TextField(None, "c", <<>>, IntV, None)>>,
    \* test_controller_apply
    <<TextField(VStr("1"), "c1", <<>>, IntV, None),
      TextField(Double, "c2", <<"c1">>, IntV, None)>>,
    \* one validator object handed to two text fields
    SharedValidator(TextField(VStr("1"), "c1", <<>>, IntV, None),
                    TextField(VStr("1"), "c2", <<>>, IntV, None)),
    \* a child registered before a parent whose update function raises
    <<TextField(Double, "k", <<"p">>, None, None),
      TextField(Fn("raise", 2), "p", <<>>, None, None)>>,
    \* an explicit Apply, first and in the middle, with optional controls
    <<Apply("ap"),
      TextField(None, "t", <<>>, None, None),
      FileUpload("f", <<>>, None, VBool(TRUE))>>,
    <<TextField(None, "t", <<>>, None, VBool(FALSE)),
      Apply("ap"),
      TextField(None, "o", <<>>, None, VBool(TRUE))>>,
    \* lists without Apply that differ in the position of the control that
    \* requires one
    <<TextField(VStr("1"), "t", <<>>, None, None), ComboBox(Hello, 0, "k", <<>>, None)>>,
    <<ComboBox(Hello, 0, "k", <<>>, None), TextField(VStr("1"), "t", <<>>, None, None)>>,
    <<ComboBox(Hello, 0, "k", <<>>, None), Slider(Floats, 0, "s")>>,
    <<FileUpload("f", <<>>, None, None), Slider(Floats, 0, "s")>>,
    <<Slider(Floats, 0, "s"), FileUpload("f", <<>>, None, None)>>,
    \* two Apply controls
    <<Apply("a1"), Apply("a2")>>,
    <<Apply("a1"), TextField(None, "t", <<>>, None, None), Apply("a2")>> }

\* dependency graphs
Graphs ==
  { \* test_simple_update
    <<TextField(VStr("1"), "c1", <<>>, None, None),
      TextField(Double, "c2", <<"c1">>, None, None)>>,
    \* test_update_func_called_only_once
    <<TextField(VStr("1"), "c1", <<>>, None, None),
      TextField(Fn("once", 2), "c2", <<"c1">>, None, None),
      TextField(Double, "c3", <<"c2">>, None, None)>>,
    \* a diamond a -> {b, c} -> d, a with an update function
    <<TextField(Fn("const", 2), "a", <<>>, None, None),
      TextField(Double, "b", <<"a">>, None, None),
      TextField(Double, "c", <<"a">>, None, None),
      TextField(Double, "d", <<"b", "c">>, None, None)>>,
    \* test_combo_box: the child is registered before its parent
    <<ComboBox(Fn("items", 2), 0, "c1", <<"cb">>, None),
      ComboBox(Hello, 0, "cb", <<>>, None)>>,
    \* test_combo_box_callable_model: the parent's data is a callable
    <<ComboBox(Fn("hello", 0), 0, "k", <<>>, None),
      ComboBox(Fn("cities", 2), 0, "c1", <<"k">>, None)>>,
    \* test_update_error
    <<TextField(VStr("1"), "c1", <<>>, None, None),
      TextField(Fn("raise", 2), "c2", <<"c1">>, None, None)>>,
    \* a chain registered child first
    <<TextField(Double, "k", <<"p">>, None, None),
      TextField(Double, "p", <<"r">>, None, None),
      TextField(VStr("1"), "r", <<>>, None, None)>>,
    \* an update function that raises between one that has run and one that
    \* depends on it
    <<TextField(VStr("1"), "c1", <<>>, None, None),
      TextField(Double, "c2", <<"c1">>, None, None),
      TextField(Fn("raise", 2), "c3", <<"c2">>, None, None),
      TextField(Double, "c4", <<"c3">>, None, None)>>,
    \* a parent constructed with data that is no numeral, so that the child's
    \* update function fails until the parent is given a numeral
    <<TextField(VStr("x"), "c1", <<>>, IntV, None),
      TextField(Double, "c2", <<"c1">>, None, None)>> }

\* the data a caller types into a text field
EditData(c) ==
  IF c.validator = None THEN {VStr("2"), VStr("x")}
  ELSE {VStr("0"), VStr("2"), VStr("x")}
\* the index a caller selects in a combo box or on a slider
EditSelected == {VInt(-1), VInt(1), VInt(2)}
\* the stream a caller uploads
EditStream == {Stream("f")}

\* the views a caller builds for control c
EditViews(c) ==
  CASE c.kind = "TextField" ->
         {TextFieldView(c.id, VBool(TRUE), None, None, d) : d \in EditData(c)}
    [] c.kind = "ComboBox" ->
         {ComboBoxView(c.id, VBool(TRUE), None, None, n, None) : n \in EditSelected}
    [] c.kind = "Slider" ->
         {SliderView(c.id, VBool(TRUE), None, n, None) : n \in EditSelected}
    [] c.kind = "FileUpload" ->
         {FileUploadView(c.id, VBool(TRUE), None, None, VBool(TRUE), st) : st \in EditStream}
    [] OTHER -> {ApplyView(c.id, VBool(TRUE), None, VBool(FALSE))}

\* a view for a control that the Controller does not hold
UnknownView == TextFieldView("zz", VBool(TRUE), None, None, VStr("2"))

\* the edits a caller makes to the view v that list() returned for control c
\* (as test_combo_box does: v.selected = 1)
EditedViews(c, v) ==
  CASE c.kind = "TextField" -> {[v EXCEPT !.data = d] : d \in EditData(c)} \ {v}
    [] c.kind = "ComboBox" -> {[v EXCEPT !.selected = n] : n \in EditSelected} \ {v}
    [] c.kind = "Slider" -> {[v EXCEPT !.selected = n] : n \in EditSelected} \ {v}
    [] c.kind = "FileUpload" -> {[v EXCEPT !.stream = st] : st \in EditStream} \ {v}
    [] OTHER -> {}

\* --------------------------------------------------------- Controller.apply
\* the target function handed to Controller.apply: "result" returns the list
\* of the arguments it was called with, "raise" raises
TargetFunc(args) == VList(args)
Returning == "result"
Raising == "raise"
\* a target function that never returns
Hanging == "hang"

RECURSIVE Values(_, _, _, _)
Values_Next(ids, i, acc, S1) ==
  IF Failed(S1) THEN S1 ELSE Values(ids, i + 1, Append(acc, S1.ret), S1)

\* values = [self.map[c_id].value() for c_id in self._ids], from position i on
Values(ids, i, acc, S) ==
  IF Failed(S) THEN S
  ELSE IF i > Len(ids) THEN SetRet(S, VList(acc))
  ELSE Values_Next(ids, i, acc, Value(ids[i], S))

\* return func(*values), S1.ret being the values
CallFunc(func, S1) ==
  IF Failed(S1) THEN S1
  ELSE IF func = Raising
  THEN [S1 EXCEPT !.log = Append(@, [e |-> "call", id |-> "", args |-> S1.ret.xs]),
                  !.err = Err("RuntimeError", "")]
  ELSE [S1 EXCEPT !.log = Append(@, [e |-> "call", id |-> "", args |-> S1.ret.xs]),
                  !.ret = TargetFunc(S1.ret.xs)]

\* variant: the values are those of self.map.values(), the synthesized Apply
\* included
ControllerApplyOfMap(func, ids, views, S) ==
  IF views.t # "list" THEN SetErr(S, Err("TypeError", ""))
  ELSE CallFunc(func, Values(S.map, 1, <<>>, ApplyViews(views.xs, 1, S)))

\* Controller.apply(func, views); `for view in views` raises TypeError when
\* views is None
ControllerApply(func, ids, views, S) ==
  IF views.t # "list" THEN SetErr(S, Err("TypeError", ""))
  ELSE CallFunc(func, Values(ids, 1, <<>>, ApplyViews(views.xs, 1, S)))

\* ------------------------------------- AppEncoder.encode: signature analysis
\* str(p.annotation): "<class 'int'>" is Annotation("class", "int"),
\* "typing.Union[int, NoneType]" is Annotation("union", "int") and
\* "typing.Optional[int]", what later Pythons print for the same annotation, is
\* Annotation("optional", "int"); Empty is inspect.Parameter.empty
Annotation(form, name) == [form |-> form, name |-> name]
Empty == Annotation("empty", "")
Parameter(name, annotation) == [name |-> name, annotation |-> annotation]

\* _type(tpe): re.search(r"<class '(.+)'", tpe), else tpe itself
TypeName(a) ==
  IF a.form = "class" THEN a.name ELSE "typing.Optional[" \o a.name \o "]"

\* _split_type(tpe): re.search(r"typing.Union\[(.+), NoneType]", tpe)
SplitType(a) ==
  IF a.form = "union" THEN <<TRUE, a.name>> ELSE <<FALSE, TypeName(a)>>

\* isinstance(value, Control)
IsControl(value) == "kind" \in DOMAIN value

\* int(b) of a bool, as `<` compares two bools
BoolInt(b) == IF b THEN 1 ELSE 0

\* variant: a disagreement in either direction is refused
CheckOptionalBothWays(strict, is_optional, name, value) ==
  IF value.optional = None
  THEN [err |-> NoErr, value |-> [value EXCEPT !.optional = VBool(is_optional)]]
  ELSE IF is_optional # value.optional.b /\ strict
  THEN [err |-> Err("ValueError", "Parameter '" \o name \o "' is not optional but the control is"),
        value |-> value]
  ELSE [err |-> NoErr, value |-> value]

\* _check_optional(is_optional, name, value): [err, value]
CheckOptional(strict, is_optional, name, value) ==
  IF value.optional = None
  THEN [err |-> NoErr, value |-> [value EXCEPT !.optional = VBool(is_optional)]]
  ELSE IF BoolInt(is_optional) < BoolInt(value.optional.b) /\ strict
  THEN [err |-> Err("ValueError", "Parameter '" \o name \o "' is not optional but the control is"),
        value |-> value]
  ELSE [err |-> NoErr, value |-> value]

\* the state of the loop: app.controls, the list `controls`, the object each
\* processed parameter's `value` names at the end of its iteration, the error
\* and the position of the parameter it was raised for
EncState(controls) ==
  [controls |-> controls, out |-> <<>>, values |-> <<>>, err |-> NoErr, at |-> 0]

\* the rest of an iteration, r being what _check_optional gave: without
\* copy.copy the control of app.controls itself was changed; a TextField is
\* appended to `controls`
AfterCheck(E, copy, i, name, r) ==
  IF r.err # NoErr THEN [E EXCEPT !.err = r.err, !.at = i]
  ELSE [E EXCEPT !.controls = IF copy THEN @ ELSE [@ EXCEPT ![name] = r.value],
                 !.out = IF r.value.kind = "TextField" THEN Append(@, r.value) ELSE @,
                 !.values = Append(@, [name |-> name, value |-> r.value])]

\* variant: a parameter without a bound control is passed over
RECURSIVE EncodeLoopSkipUnbound(_, _, _, _, _)
EncodeLoopSkipUnbound(sig, i, strict, copy, E) ==
  IF i > Len(sig) \/ E.err # NoErr THEN E
  ELSE IF sig[i].name \notin DOMAIN E.controls
            \/ sig[i].annotation = Empty \/ ~IsControl(E.controls[sig[i].name])
  THEN EncodeLoopSkipUnbound(sig, i + 1, strict, copy, E)
  ELSE EncodeLoopSkipUnbound(sig, i + 1, strict, copy,
         AfterCheck(E, copy, i, sig[i].name,
                    CheckOptional(strict, SplitType(sig[i].annotation)[1],
                                  sig[i].name, E.controls[sig[i].name])))

\* for p in sig.parameters.values(): ...
RECURSIVE EncodeLoop(_, _, _, _, _)
EncodeLoop(sig, i, strict, copy, E) ==
  IF i > Len(sig) \/ E.err # NoErr THEN E
  ELSE IF sig[i].name \notin DOMAIN E.controls
  THEN [E EXCEPT !.err = Err("ValueError", "Control '" \o sig[i].name \o "' is not bound"),
                 !.at = i]
  ELSE IF sig[i].annotation = Empty \/ ~IsControl(E.controls[sig[i].name])
  THEN EncodeLoop(sig, i + 1, strict, copy, E)
  ELSE EncodeLoop(sig, i + 1, strict, copy,
         AfterCheck(E, copy, i, sig[i].name,
                    CheckOptional(strict, SplitType(sig[i].annotation)[1],
                                  sig[i].name, E.controls[sig[i].name])))

\* the functions and the bindings handed to the encoder
ParamNames == <<"x", "y">>
Annotations ==
  {Empty, Annotation("class", "int"), Annotation("union", "int"),
   Annotation("optional", "int")}
Signatures ==
  {<<Parameter(ParamNames[1], a)>> : a \in Annotations}
    \cup {<<Parameter(ParamNames[1], a), Parameter(ParamNames[2], b)>> :
            a \in Annotations, b \in Annotations}
Optionals == {None, VBool(FALSE), VBool(TRUE)}
Bound(name) ==
  {TextField(VStr("10"), name, <<>>, None, o) : o \in Optionals}
    \cup {ComboBox(Hello, 0, name, <<>>, o) : o \in Optionals}
    \cup {VStr("10")}
Bindings ==
  UNION {[names -> UNION {Bound(n) : n \in names}] :
           names \in SUBSET {ParamNames[i] : i \in 1..Len(ParamNames)}}

\* inspect.getmodule(frame) is None: a frame of a notebook cell
NoModule == ""
\* the module of what a script or a notebook defines
Main == "__main__"
\* __qualname__ of a function defined at the top of its module, and of one
\* defined inside another function (my_func of test_jupyter_like_env)
TopLevel == "func"
Local == "test.<locals>.func"
\* the functions handed to encode, by __qualname__ and by whether a
\* decorator that keeps the function as __decorated__ (flash_cache, depends)
\* rebound the module's name to its wrapper
Qualnames ==
  { [qualname |-> TopLevel, rebound |-> FALSE],
    [qualname |-> TopLevel, rebound |-> TRUE],
    [qualname |-> Local, rebound |-> FALSE] }

\* while call_stack_frame: ..., frames being the modules of the frames from
\* the caller of encode outwards, module the function's __module__ and force
\* the flag so far
RECURSIVE ScanStack(_, _, _, _)
ScanStack(frames, i, module, force) ==
  IF i > Len(frames) THEN force
  ELSE IF frames[i] = NoModule THEN module = Main
  ELSE ScanStack(frames, i + 1, module, force \/ frames[i] = module)

\* _stage_deps(deps, stage_dir): the decorator gave a function of a module
\* other than __main__ the ModuleDependency of its module, which forced
\* serialization leaves out of deps; its sources are the module's file of the
\* project
StageDeps(force, module) ==
  IF ~force /\ module # Main THEN {module \o ".py"} ELSE {}

\* what encode leaves in the stage directory after its loop ended in E:
\* an exception of the loop ends encode before anything is staged; a forced
\* function of a module other than __main__ gets an empty file for its module
Staged(E, force, module) ==
  IF E.err # NoErr THEN [files |-> {}, archived |-> FALSE, function |-> None]
  ELSE [files |-> StageDeps(force, module)
                    \cup {"controller.pickle"}
                    \cup (IF force THEN {"function.pickle"} ELSE {})
                    \cup (IF force /\ module # Main THEN {module \o ".py"} ELSE {}),
        archived |-> TRUE,
        function |-> IF force THEN [type |-> "pickle", data |-> "function.pickle"]
                     ELSE [type |-> "source", data |-> module \o ".func"]]

\* ------------------------------------ controller.pickle and the re-link step
\* cloudpickle serializes by value what the Controller reaches: the controls
\* of its map and, through _parents, the objects the caller built.  An object
\* that is not itself in the map is named Shadow(its id) after loading.
Shadow(id) == id \o "*"

\* the ids of the objects reached from ids through _parents
RECURSIVE Reachable(_, _)
Reachable(objects, ids) ==
  IF UNION {{objects[id].parents[i] : i \in 1..Len(objects[id].parents)} : id \in ids}
       \subseteq ids
  THEN ids
  ELSE Reachable(objects,
         ids \cup UNION {{objects[id].parents[i] : i \in 1..Len(objects[id].parents)} :
                           id \in ids})

\* the name, after loading, of the object with id pid that a _parents list
\* refers to: copy.copy left the originals in the _parents of the copies
PointsTo(pid, inMap, copy) == IF ~copy /\ pid \in inMap THEN pid ELSE Shadow(pid)

\* cloudpickle.load(controller.pickle): the objects by name, out being the
\* controls handed to Controller(...), objects everything the caller built
Unpickled(out, objects, copy, synth) ==
  LET inMap == {out[i].id : i \in 1..Len(out)}
      shadows == Reachable(objects,
                   UNION {{out[i].parents[j] : j \in 1..Len(out[i].parents)} :
                            i \in 1..Len(out)})
                   \ (IF copy THEN {} ELSE inMap)
      point(c) == [c EXCEPT !.parents = [i \in 1..Len(@) |-> PointsTo(@[i], inMap, copy)]]
  IN [k \in inMap \cup {Shadow(id) : id \in shadows}
               \cup (IF synth THEN {SynthId} ELSE {}) |->
        IF k \in inMap THEN point(out[CHOOSE i \in 1..Len(out) : out[i].id = k])
        ELSE IF synth /\ k = SynthId THEN Apply(SynthId)
        ELSE point(objects[CHOOSE id \in shadows : Shadow(id) = k])]

\* for c in controller.map.values(): for i in range(len(c._parents)):
\*   c._parents[i] = controller.map[c._parents[i]._id], from control k on
RECURSIVE Relink(_, _)
Relink(S, k) ==
  IF k > Len(S.map) \/ Failed(S) THEN S
  ELSE IF \E i \in 1..Len(S.ctl[S.map[k]].parents) :
            \A j \in 1..Len(S.map) : S.map[j] # S.ctl[S.ctl[S.map[k]].parents[i]].id
  THEN SetErr(S, Err("KeyError",
         S.ctl[S.ctl[S.map[k]].parents[
           CHOOSE i \in 1..Len(S.ctl[S.map[k]].parents) :
             /\ \A j \in 1..Len(S.map) : S.map[j] # S.ctl[S.ctl[S.map[k]].parents[i]].id
             /\ \A h \in 1..(i - 1) :
                  \E j \in 1..Len(S.map) : S.map[j] = S.ctl[S.ctl[S.map[k]].parents[h]].id]].id))
  ELSE Relink([S EXCEPT !.ctl[S.map[k]].parents = [i \in 1..Len(@) |-> S.ctl[@[i]].id]],
              k + 1)

\* the interpreter's state of a subprocess after cloudpickle.load of the
\* staged controller.pickle, K being Controller(out)
Loaded(out, K, objects, copy) ==
  [ctl |-> Unpickled(out, objects, copy, K.synth), map |-> K.map,
   cnt |-> [k \in DOMAIN Unpickled(out, objects, copy, K.synth) |-> 0],
   log |-> <<>>, err |-> NoErr, ret |-> None]

\* ------------------------------ AppExecutor and the generated execute_script
\* View.pack(): the dict json.dumps writes
Pack(view) ==
  [type |-> view.type, id |-> view.id, enabled |-> view.enabled,
   label |-> view.label, optional |-> view.optional]
    @@ CASE view.type = "TextFieldView" -> [data |-> view.data]
         [] view.type = "ComboBoxView" -> [titles |-> view.titles, selected |-> view.selected]
         [] view.type = "SliderView" -> [data |-> view.data, selected |-> view.selected]
         [] view.type = "FileUploadView" -> [is_text |-> view.is_text]
         [] OTHER -> <<>>
PackAll(views) == [i \in 1..Len(views) |-> Pack(views[i])]

\* source.get(key)
Get(source, key) == IF key \in DOMAIN source THEN source[key] ELSE None

\* The views of dstack.controls, the module dstack.application.controls takes
\* View and its kinds from, by the positional parameters unpack_view fills:
\* each argument becomes the field of its name
ControlsTextFieldView(id, data, enabled, label, optional) ==
  TextFieldView(id, enabled, label, optional, data)
ControlsComboBoxView(id, selected, titles, enabled, label, optional) ==
  ComboBoxView(id, enabled, label, optional, selected, titles)
ControlsSliderView(id, selected, data, enabled, label) ==
  SliderView(id, enabled, label, selected, data)

\* unpack_view(source): [ok, view]; a type other than the four raises
\* AttributeError("Unsupported view: ...") and builds no view
UnpackView(source) ==
  CASE source.type = "TextFieldView" ->
         [ok |-> TRUE,
          view |-> ControlsTextFieldView(source.id, Get(source, "data"),
                     Get(source, "enabled"), Get(source, "label"),
                     Get(source, "optional"))]
    [] source.type = "ApplyView" ->
         [ok |-> TRUE,
          view |-> ApplyView(source.id, Get(source, "enabled"), Get(source, "label"),
                             Get(source, "optional"))]
    [] source.type = "ComboBoxView" ->
         [ok |-> TRUE,
          view |-> ControlsComboBoxView(source.id, Get(source, "selected"),
                     Get(source, "titles"), Get(source, "enabled"),
                     Get(source, "label"), Get(source, "optional"))]
    [] source.type = "SliderView" ->
         [ok |-> TRUE,
          view |-> ControlsSliderView(source.id, Get(source, "selected"),
                     Get(source, "data"), Get(source, "enabled"),
                     Get(source, "label"))]
    [] OTHER -> [ok |-> FALSE, view |-> None]
\* [unpack_view(v) for v in execution["views"]]: [ok, views]
UnpackAll(sources) ==
  IF \E i \in 1..Len(sources) : ~UnpackView(sources[i]).ok
  THEN [ok |-> FALSE, views |-> <<>>]
  ELSE [ok |-> TRUE, views |-> [i \in 1..Len(sources) |-> UnpackView(sources[i]).view]]

\* an execution file: absent, opened for writing and still empty, or holding
\* the JSON of an execution
Absent == [status |-> "absent"]
Torn == [status |-> "torn"]
Record(status, views, output) ==
  [status |-> status, views |-> PackAll(views), output |-> output]

\* variant: every execution uses one file
ExecutionFileShared(execution_id) == 1
\* executions / (execution_id + '.json')
ExecutionFile(execution_id) == execution_id

\* _write_views(execution_id, views): `if views:` writes the 'ready' record
WriteViews(fs, execution_id, views) ==
  IF Truthy(views)
  THEN [fs EXCEPT ![ExecutionFile(execution_id)] = Record("ready", views.xs, None)]
  ELSE fs

\* Execution(id, status, views, output)
Execution(id, status, views, output) ==
  [id |-> id, status |-> status, views |-> views, output |-> output]

\* poll(execution_id): [err, ret]; json.loads of an empty file raises
PollUnpacked(execution_id, file, u) ==
  IF ~u.ok THEN [err |-> Err("AttributeError", "Unsupported view"), ret |-> None]
  ELSE [err |-> NoErr,
        ret |-> Execution(execution_id, file.status, u.views, Get(file, "output"))]
Poll(fs, execution_id) ==
  IF fs[ExecutionFile(execution_id)] = Absent THEN [err |-> NoErr, ret |-> None]
  ELSE IF fs[ExecutionFile(execution_id)] = Torn
  THEN [err |-> Err("JSONDecodeError", ""), ret |-> None]
  ELSE PollUnpacked(execution_id, fs[ExecutionFile(execution_id)],
                    UnpackAll(fs[ExecutionFile(execution_id)].views))

\* return self.poll(execution_id).views
PollViews(r) ==
  IF r.err # NoErr THEN r
  ELSE IF r.ret = None THEN [err |-> Err("AttributeError", "views"), ret |-> None]
  ELSE [err |-> NoErr, ret |-> VList(r.ret.views)]

\* execute_script: views = controller.list(...) on the controller loaded from
\* controller.pickle, L; u is what unpacking the views of the file gave
ScriptListUnpacked(u, L) ==
  IF ~u.ok THEN SetErr(L, Err("AttributeError", "Unsupported view"))
  ELSE ControllerList(VList(u.views), L)
\* variant: the views of the file are returned as they are
ScriptListEcho(file, L) ==
  IF file = Absent THEN ControllerList(None, L)
  ELSE IF file = Torn THEN SetErr(L, Err("JSONDecodeError", ""))
  ELSE SetRet(L, VList(UnpackAll(file.views).views))
ScriptList(file, L) ==
  IF file = Absent THEN ControllerList(None, L)
  ELSE IF file = Torn THEN SetErr(L, Err("JSONDecodeError", ""))
  ELSE ScriptListUnpacked(UnpackAll(file.views), L)
\* execute_script from the re-link step on, R being what the step left: an
\* exception of the step ends the script
ScriptRelinked(file, R) == IF Failed(R) THEN R ELSE ScriptList(file, R)

\* variant: the record written after controller.list is always 'ready'
ScriptStatusReady(apply) == "ready"
\* 'running' if apply else 'ready'
ScriptStatus(apply) == IF apply THEN "running" ELSE "ready"

\* variant: no output is recorded
StrNone(output) == None
\* str(output)
Str(output) == VStr(PyStr(output))

\* --------------------------------------------------------------- the state
VARIABLES
  ctl,         \* the control objects, by id
  controller,  \* the Controller: [err, map, ids, synth]
  cnt,         \* invocations of each control's update function so far
  calls,       \* calls made so far
  edits,       \* views edited by the caller so far
  quiet,       \* every call so far was controller.list() without views
  last,        \* the last call: [op, id, views, err, ret, log]
  stack,       \* the frames of a call in progress, the innermost last
  encoder,     \* the AppEncoder: [strict_type_check, copy_controls,
               \* force_serialization]
  app,         \* the application: [sig, controls, others, module, frames],
               \* others being the controls it binds to no parameter and
               \* frames the call stack encode is called from
  encoded,     \* the encodings so far: [n, err, at, controls, values, given,
               \* stage]
  func,        \* the target function of the application
  files,       \* the files of the directory executions, by execution id
  pc,          \* where the subprocess of each execution id is
  procs,       \* the subprocesses, by execution id: [apply, views, listed, S]
  execs,       \* execution ids handed out so far
  waiting,     \* the execution id whose subprocess views() waits for, or 0
  seen         \* what the caller's last call returned: [op, id, err, ret]

procVars == <<ctl, controller, cnt, calls, edits, quiet, last, stack>>
encVars == <<encoder, app, encoded>>
execVars == <<func, files, pc, procs, execs, waiting, seen>>
vars == <<ctl, controller, cnt, calls, edits, quiet, last, stack, encoder, app, encoded,
          func, files, pc, procs, execs, waiting, seen>>

Ids == DOMAIN ctl

\* the state after Controller(cs) returned K
Constructed(cs, K) ==
    LET given == {cs[i].id : i \in 1..Len(cs)}
        byId(id) == IF id \in given THEN cs[CHOOSE i \in 1..Len(cs) : cs[i].id = id]
                    ELSE Apply(SynthId)
    IN /\ controller = K
       /\ ctl = [id \in given \cup (IF K.synth THEN {SynthId} ELSE {}) |-> byId(id)]
       /\ cnt = [id \in given \cup (IF K.synth THEN {SynthId} ELSE {}) |-> 0]
       /\ calls = 0
       /\ edits = 0
       /\ quiet = TRUE
       /\ stack = <<>>
       /\ last = [op |-> "new", id |-> "", views |-> None, err |-> K.err,
                  ret |-> None, log |-> <<>>]

InitWith(scenarios) == \E cs \in scenarios : Constructed(cs, Controller(cs))

Scenarios == Forms \cup Graphs

\* before the first encode
NotEncoded ==
  [n |-> 0, err |-> NoErr, at |-> 0, controls |-> <<>>, values |-> <<>>,
   given |-> <<>>, stage |-> [files |-> {}, archived |-> FALSE, function |-> None]]

\* no encoder at work
NoEncoder ==
  /\ encoder = [strict_type_check |-> TRUE, copy_controls |-> TRUE,
                force_serialization |-> FALSE]
  /\ app = [sig |-> <<>>, controls |-> <<>>, others |-> <<>>, module |-> Main,
            qualname |-> TopLevel, rebound |-> FALSE, frames |-> <<>>]
  /\ encoded = NotEncoded

\* execution ids, in the order uuid4() hands them out
MaxExecs == 2
ExecIds == 1..MaxExecs

\* a subprocess that was not started
NoProc == [apply |-> FALSE, views |-> None, listed |-> <<>>,
           S |-> [ctl |-> <<>>, map |-> <<>>, cnt |-> <<>>, log |-> <<>>,
                  err |-> NoErr, ret |-> None]]

\* no executor at work
NoExecutor ==
  /\ func = Returning
  /\ files = [id \in ExecIds |-> Absent]
  /\ pc = [id \in ExecIds |-> "none"]
  /\ procs = [id \in ExecIds |-> NoProc]
  /\ execs = 0
  /\ waiting = 0
  /\ seen = [op |-> "none", id |-> 0, err |-> NoErr, ret |-> None]

Init == InitWith(Scenarios) /\ NoEncoder /\ NoExecutor

\* the interpreter's state at the start of a call
Start == [ctl |-> ctl, map |-> controller.map, cnt |-> cnt, log |-> <<>>,
          err |-> NoErr, ret |-> None]

CanCall == controller.err = NoErr /\ calls < MaxCalls

Finish(op, id, views, n, S) ==
  /\ ctl' = S.ctl
  /\ cnt' = S.cnt
  /\ calls' = calls + 1
  /\ edits' = edits + n
  /\ quiet' = (quiet /\ op = "list" /\ views = None)
  /\ last' = [op |-> op, id |-> id, views |-> views, err |-> S.err,
              ret |-> IF Failed(S) THEN None ELSE S.ret, log |-> S.log]
  /\ UNCHANGED <<controller, stack>>
  /\ UNCHANGED encVars
  /\ UNCHANGED execVars

\* controller.list()
CallList ==
  /\ CanCall
  /\ Finish("list", "", None, 0, ControllerList(None, Start))

\* controller.list([view]) with a view the caller built
CallListView ==
  /\ CanCall /\ edits < MaxEdits
  /\ \E id \in Ids : \E v \in EditViews(ctl[id]) :
       Finish("list", "", VList(<<v>>), 1, ControllerList(VList(<<v>>), Start))

\* controller.list(controller.list()): the views the last list returned are
\* handed back
CallListEcho ==
  /\ CanCall
  /\ last.op \in {"list", "echo", "edit"} /\ last.err = NoErr
  /\ Finish("echo", "", last.ret, 0, ControllerList(last.ret, Start))

\* the views the last list returned are handed back with one of them edited
CallListEdit ==
  /\ CanCall /\ edits < MaxEdits
  /\ last.op \in {"list", "echo", "edit"} /\ last.err = NoErr
  /\ \E i \in 1..Len(last.ret.xs) :
       \E v \in EditedViews(ctl[last.ret.xs[i].id], last.ret.xs[i]) :
         LET views == VList([last.ret.xs EXCEPT ![i] = v])
         IN Finish("edit", "", views, 1, ControllerList(views, Start))

\* controller.list(views) with a view whose id the Controller does not hold,
\* before or after a view the caller built
CallListUnknown ==
  /\ CanCall /\ edits < MaxEdits
  /\ \E id \in Ids : \E v \in EditViews(ctl[id]) :
       \E views \in {VList(<<UnknownView, v>>), VList(<<v, UnknownView>>)} :
         Finish("list", "", views, 1, ControllerList(views, Start))

\* controller.apply(func, views) with no views
CallControllerApply ==
  /\ CanCall
  /\ \E views \in {None, VList(<<>>)} :
       Finish("call", "", views, 0, ControllerApply(Returning, controller.ids, views, Start))

\* controller.apply(func, [view]) with a view the caller built
CallControllerApplyView ==
  /\ CanCall /\ edits < MaxEdits
  /\ \E id \in Ids : \E v \in EditViews(ctl[id]) :
       Finish("call", "", VList(<<v>>), 1,
              ControllerApply(Returning, controller.ids, VList(<<v>>), Start))

\* controller.apply(func, controller.list(...)): the views the last list
\* returned are handed over, as test_controller_apply does
CallControllerApplyEcho ==
  /\ CanCall
  /\ last.op \in {"list", "echo", "edit"} /\ last.err = NoErr
  /\ Finish("call", "", last.ret, 0, ControllerApply(Returning, controller.ids, last.ret, Start))

\* control.apply(view)
CallApply ==
  /\ CanCall /\ edits < MaxEdits
  /\ \E id \in Ids : \E v \in EditViews(ctl[id]) :
       Finish("apply", id, VList(<<v>>), 1, ControlApply(id, v, Start))

\* validator.bind(control), by the caller, on the validator of a text field
CallBind ==
  /\ CanCall
  /\ \E id \in Ids : \E to \in Ids :
       /\ ctl[id].kind = "TextField" /\ ctl[id].validator # None
       /\ Finish("bind", id, None, 0,
                 [Start EXCEPT !.ctl = Bind(@, ctl[id].validator_obj, to)])

\* control.value() (Apply._value is None)
CallValue ==
  /\ CanCall
  /\ \E id \in Ids :
       Finish("value", id, None, 0,
              IF ctl[id].kind = "Apply" THEN SetRet(Update(id, Start), None)
              ELSE Value(id, Start))

\* control.view()
CallView ==
  /\ CanCall
  /\ \E id \in Ids : Finish("view", id, None, 0, View(id, Start))

Next == CallList \/ CallListView \/ CallListEcho \/ CallListEdit
          \/ CallApply \/ CallBind \/ CallValue \/ CallView \/ CallListUnknown
          \/ CallControllerApply \/ CallControllerApplyView \/ CallControllerApplyEcho

Spec == Init /\ [][Next]_vars

\* ------------------------------------------------- the encoder at work
\* AppEncoder(_strict_type_check=...) and an Application(function, **controls)
InitEncode ==
  /\ Constructed(<<>>, Controller(<<>>))
  /\ \E strict \in BOOLEAN :
       encoder = [strict_type_check |-> strict, copy_controls |-> TRUE,
                  force_serialization |-> FALSE]
  /\ \E sig \in Signatures : \E controls \in Bindings :
       app = [sig |-> sig, controls |-> controls, others |-> <<>>,
              module |-> "tests.app.test_app", qualname |-> Local, rebound |-> FALSE,
              frames |-> <<"tests.app.test_app", "unittest.case">>]
  /\ encoded = NotEncoded
  /\ NoExecutor

\* what encode leaves, E being the state its loop ended in
Encoded(E) ==
  /\ app' = [app EXCEPT !.controls = E.controls]
  /\ encoded' = [n |-> encoded.n + 1, err |-> E.err, at |-> E.at,
                 controls |-> IF E.err = NoErr THEN E.out ELSE <<>>,
                 values |-> E.values, given |-> app.controls,
                 stage |-> Staged(E, ScanStack(app.frames, 1, app.module,
                                               encoder.force_serialization),
                                  app.module)]
  /\ UNCHANGED encoder
  /\ UNCHANGED procVars
  /\ UNCHANGED execVars

\* encoder.encode(app, None, None)
Encode ==
  /\ encoded.n < MaxCalls /\ waiting = 0
  /\ Encoded(EncodeLoop(app.sig, 1, encoder.strict_type_check,
                        encoder.copy_controls, EncState(app.controls)))

\* encoder._copy_controls = False
SetCopyControls ==
  /\ encoder.copy_controls
  /\ encoder' = [encoder EXCEPT !.copy_controls = FALSE]
  /\ UNCHANGED <<app, encoded>>
  /\ UNCHANGED procVars
  /\ UNCHANGED execVars

NextEncode == Encode \/ SetCopyControls

SpecEncode == InitEncode /\ [][NextEncode]_vars

\* ------------------------------------- the staged application at work
\* The applications handed to the encoder: the signature of the function, the
\* controls bound to its parameters and the controls that are only depended on
IntParam(name) == Parameter(name, Annotation("class", "int"))
Apps ==
  { \* test_jupyter_like_env: my_func(x: int, y: int), x = c1, y = c2
    [sig |-> <<IntParam("x"), IntParam("y")>>,
     controls |-> [x |-> TextField(VStr("1"), "c1", <<>>, None, None),
                   y |-> TextField(Double, "c2", <<"c1">>, None, None)],
     others |-> <<>>],
    \* one text field
    [sig |-> <<IntParam("x")>>,
     controls |-> [x |-> TextField(VStr("1"), "c1", <<>>, None, None)],
     others |-> <<>>],
    \* the parent is a combo box
    [sig |-> <<IntParam("x"), IntParam("y")>>,
     controls |-> [x |-> ComboBox(Hello, 0, "c1", <<>>, None),
                   y |-> TextField(Fn("const", 2), "c2", <<"c1">>, None, None)],
     others |-> <<>>],
    \* the parent is bound to no parameter
    [sig |-> <<IntParam("y")>>,
     controls |-> [y |-> TextField(Double, "c2", <<"c1">>, None, None)],
     others |-> [c1 |-> TextField(VStr("1"), "c1", <<>>, None, None)]],
    \* the parent's parameter has no annotation
    [sig |-> <<Parameter("x", Empty), IntParam("y")>>,
     controls |-> [x |-> TextField(VStr("1"), "c1", <<>>, None, None),
                   y |-> TextField(Double, "c2", <<"c1">>, None, None)],
     others |-> <<>>] }

\* the modules a function is defined in and the call stacks encode is called
\* from, the caller first
Modules == {Main, "mymodule"}
MaxFrames == 2
Stacks ==
  UNION {[1..n -> {NoModule, Main, "mymodule", "dstack"}] : n \in 1..MaxFrames}

InitStage ==
  /\ Constructed(<<>>, Controller(<<>>))
  /\ \E force \in BOOLEAN : \E copy \in BOOLEAN :
       encoder = [strict_type_check |-> TRUE, copy_controls |-> copy,
                  force_serialization |-> force]
  /\ \E a \in Apps : \E module \in Modules : \E q \in Qualnames :
     \E frames \in Stacks :
       app = [sig |-> a.sig, controls |-> a.controls, others |-> a.others,
              module |-> module, qualname |-> q.qualname, rebound |-> q.rebound,
              frames |-> frames]
  /\ encoded = NotEncoded
  /\ NoExecutor

\* everything the caller built, by id: the bound controls as encode left them
\* and the others
Objects ==
  [id \in {app.controls[n].id : n \in DOMAIN app.controls} \cup DOMAIN app.others |->
     IF id \in DOMAIN app.others THEN app.others[id]
     ELSE app.controls[CHOOSE n \in DOMAIN app.controls : app.controls[n].id = id]]

\* the views a caller submits for a refresh: none, or a view it built for the
\* first control of the Controller
StagedViews ==
  {None} \cup (IF encoded.controls = <<>> THEN {}
               ELSE {VList(<<v>>) : v \in EditViews(encoded.controls[1])})

\* ------------------------------------------- views packed and unpacked
\* The views a control's view() or a caller builds, of every kind
ViewsOfEveryKind ==
  LET enabled == {VBool(TRUE), VBool(FALSE)}
      labels == {None, VStr("my text")}
      optionals == {None, VBool(FALSE), VBool(TRUE)}
  IN {TextFieldView("c1", e, l, o, d) :
        e \in enabled, l \in labels, o \in optionals, d \in {None, VStr("10")}}
     \cup {ComboBoxView("c3", e, l, o, n, t) :
             e \in enabled, l \in labels, o \in optionals,
             n \in {VInt(0), VInt(1)}, t \in {None, Hello}}
     \cup {SliderView("c5", e, l, n, d) :
             e \in enabled, l \in labels, n \in {VInt(0), VInt(1)}, d \in {None, Floats}}
     \cup {FileUploadView("c4", e, l, o, t, f) :
             e \in enabled, l \in labels, o \in optionals,
             t \in {VBool(TRUE), VBool(FALSE)}, f \in {None, Stream("f")}}
     \cup {ApplyView("c6", e, l, o) : e \in enabled, l \in labels, o \in optionals}

InitPack ==
  /\ controller = Controller(<<>>)
  /\ ctl = <<>>
  /\ cnt = <<>>
  /\ calls = 0
  /\ edits = 0
  /\ quiet = TRUE
  /\ stack = <<>>
  /\ \E v \in ViewsOfEveryKind :
       last = [op |-> "view", id |-> v.id, views |-> VList(<<v>>), err |-> NoErr,
               ret |-> None, log |-> <<>>]
  /\ NoEncoder
  /\ NoExecutor

\* p = v.pack()
CallPack ==
  /\ last.op = "view"
  /\ last' = [last EXCEPT !.op = "pack", !.ret = Pack(last.views.xs[1])]
  /\ calls' = calls + 1
  /\ UNCHANGED <<ctl, controller, cnt, edits, quiet, stack>>
  /\ UNCHANGED encVars
  /\ UNCHANGED execVars

\* unpack_view(p)
CallUnpackView ==
  /\ last.op = "pack"
  /\ last' = [last EXCEPT
                !.op = "unpack",
                !.err = IF UnpackView(last.ret).ok THEN NoErr
                        ELSE Err("AttributeError", last.id),
                !.ret = [packed |-> last.ret, view |-> UnpackView(last.ret).view]]
  /\ calls' = calls + 1
  /\ UNCHANGED <<ctl, controller, cnt, edits, quiet, stack>>
  /\ UNCHANGED encVars
  /\ UNCHANGED execVars

NextPack == CallPack \/ CallUnpackView

SpecPack == InitPack /\ [][NextPack]_vars

\* ------------------------------------------------ the executor at work
\* The Controllers the encoder pickles: it hands only TextFields to
\* Controller(...), each with the optional _check_optional left on it
Pickled ==
  { \* test_controller_apply, the first parameter annotated Optional[int]
    <<TextField(VStr("1"), "c1", <<>>, IntV, VBool(TRUE)),
      TextField(Double, "c2", <<"c1">>, IntV, VBool(FALSE))>>,
    \* an update function that raises
    <<TextField(VStr("1"), "c1", <<>>, None, VBool(FALSE)),
      TextField(Fn("raise", 2), "c2", <<"c1">>, None, VBool(FALSE))>> }

\* the functions of an imported module handed to encode: one defined at the
\* top of the module, which holds it under its name, and one defined inside
\* another function (test_jupyter_like_env)
Functions ==
  { [module |-> "mymodule", qualname |-> TopLevel, rebound |-> FALSE],
    [module |-> "mymodule", qualname |-> Local, rebound |-> FALSE] }

\* decode(data) of what encode staged under forced serialization
Decoded ==
  /\ encoder = [strict_type_check |-> TRUE, copy_controls |-> TRUE,
                force_serialization |-> TRUE]
  /\ \E f \in Functions :
       /\ app = [sig |-> <<>>, controls |-> <<>>, others |-> <<>>, module |-> f.module,
                 qualname |-> f.qualname, rebound |-> f.rebound, frames |-> <<>>]
       /\ encoded = [NotEncoded EXCEPT !.stage = Staged([err |-> NoErr], TRUE, f.module)]

\* decode(): the staged directory holds controller.pickle and the function;
\* executions is empty
InitExec ==
  /\ InitWith(Pickled)
  /\ Decoded
  /\ func \in {Returning, Raising}
  /\ files = [id \in ExecIds |-> Absent]
  /\ pc = [id \in ExecIds |-> "none"]
  /\ procs = [id \in ExecIds |-> NoProc]
  /\ execs = 0
  /\ waiting = 0
  /\ seen = [op |-> "none", id |-> 0, err |-> NoErr, ret |-> None]

\* the views a caller submits: none, a view it built for the first field, or
\* the views its last call returned
Submitted ==
  {None}
    \cup {VList(<<TextFieldView(controller.ids[1], VBool(TRUE), None, None, VStr("2"))>>)}
    \cup (IF seen.err = NoErr /\ seen.op = "views" THEN {seen.ret} ELSE {})
    \cup (IF seen.err = NoErr /\ seen.op = "poll" /\ seen.ret # None
          THEN {VList(seen.ret.views)} ELSE {})

\* execution_id = str(uuid4()); self._write_views(execution_id, views);
\* subprocess.Popen([..., execution_id, apply])
Popen(execution_id, views, apply, loaded) ==
  /\ execs' = execution_id
  /\ files' = WriteViews(files, execution_id, views)
  /\ pc' = [pc EXCEPT ![execution_id] = "start"]
  /\ procs' = [procs EXCEPT ![execution_id] =
                 [apply |-> apply, views |-> views, listed |-> <<>>, S |-> loaded]]
  /\ UNCHANGED func
  /\ UNCHANGED procVars
  /\ UNCHANGED encVars

\* executor.execute(views): returns the execution id
ExecutorExecute ==
  /\ waiting = 0 /\ execs < MaxExecs
  /\ \E views \in Submitted :
       /\ Popen(execs + 1, views, TRUE, Start)
       /\ seen' = [op |-> "execute", id |-> execs + 1, err |-> NoErr, ret |-> None]
  /\ UNCHANGED waiting

\* executor.views(views), up to p.wait()
ExecutorViews ==
  /\ waiting = 0 /\ execs < MaxExecs
  /\ \E views \in Submitted :
       Popen(execs + 1, views, FALSE, Start)
  /\ waiting' = execs + 1
  /\ UNCHANGED seen

\* what a call of the caller leaves, r being [err, ret]
Seen(op, id, r) ==
  /\ seen' = [op |-> op, id |-> id, err |-> r.err, ret |-> r.ret]
  /\ waiting' = 0
  /\ UNCHANGED <<func, files, pc, procs, execs>>
  /\ UNCHANGED procVars
  /\ UNCHANGED encVars

\* variant: views() does not wait for the subprocess
ExecutorViewsNoWait ==
  /\ waiting # 0
  /\ Seen("views", waiting, PollViews(Poll(files, waiting)))

\* executor.views(views), from p.wait() on: the subprocess has ended
ExecutorViewsReturn ==
  /\ waiting # 0 /\ pc[waiting] \in {"exited", "crashed"}
  /\ Seen("views", waiting, PollViews(Poll(files, waiting)))

\* executor.poll(execution_id), of an id execute() returned or of one that
\* no execution has
ExecutorPoll ==
  /\ waiting = 0
  /\ \E id \in ExecIds : id <= execs + 1 /\ Seen("poll", id, Poll(files, id))

\* the subprocess, L being what the script's controller.list left: an
\* exception ends the process
Listed(id, L) ==
  /\ pc' = [pc EXCEPT ![id] = IF Failed(L) THEN "crashed" ELSE "listed"]
  /\ procs' = [procs EXCEPT ![id].listed = IF Failed(L) THEN <<>> ELSE L.ret.xs,
                            ![id].S = L]
  /\ UNCHANGED <<func, files, execs, waiting, seen>>
  /\ UNCHANGED procVars
  /\ UNCHANGED encVars

\* execute_script up to views = controller.list(...): the re-link step, then
\* the list
SubprocessList(id) ==
  /\ pc[id] = "start"
  /\ Listed(id, ScriptRelinked(files[ExecutionFile(id)], Relink(procs[id].S, 1)))

\* execution_file.write_text(...) opens the file, which empties it
SubprocessOpen(id) ==
  /\ pc[id] \in {"listed", "applied"}
  /\ files' = [files EXCEPT ![ExecutionFile(id)] = Torn]
  /\ pc' = [pc EXCEPT ![id] = IF @ = "listed" THEN "open" ELSE "reopen"]
  /\ UNCHANGED <<func, procs, execs, waiting, seen>>
  /\ UNCHANGED procVars
  /\ UNCHANGED encVars

\* ... and writes the execution: status and views after controller.list,
\* 'finished' and the output after controller.apply
SubprocessWrite(id) ==
  /\ pc[id] \in {"open", "reopen"}
  /\ files' = [files EXCEPT ![ExecutionFile(id)] =
                 IF pc[id] = "open"
                 THEN Record(ScriptStatus(procs[id].apply), procs[id].listed, None)
                 ELSE Record("finished", procs[id].listed, Str(procs[id].S.ret))]
  /\ pc' = [pc EXCEPT ![id] = IF @ = "open" THEN "written" ELSE "exited"]
  /\ UNCHANGED <<func, procs, execs, waiting, seen>>
  /\ UNCHANGED procVars
  /\ UNCHANGED encVars

\* cloudpickle pickles _undress(app.function) by value unless its module is
\* importable and holds that very function under its __qualname__: a function
\* of __main__, a function defined inside another function and a function
\* whose name in the module a decorator rebound to a wrapper are pickled by
\* value
ByValue(module, qualname, rebound) == module = Main \/ qualname = Local \/ rebound

\* what the script's statement that loads the target function raises:
\* `from <module> import <func> as _func` finds no function in __main__, which
\* is execute_script.py in the subprocess, and none at the top of the module
\* of a function defined inside another, and
\* imports the wrapper of a rebound one; cloudpickle.load of function.pickle
\* imports the module of a function pickled by reference, the empty file encode
\* staged, and finds no function in it; a function pickled by value loads
LoadFunc(function, module, qualname, rebound) ==
  CASE function.type = "source" /\ (module = Main \/ qualname = Local) ->
         Err("ImportError", function.data)
    [] function.type = "pickle" /\ ~ByValue(module, qualname, rebound) ->
         Err("AttributeError", function.data)
    [] OTHER -> NoErr

\* the script loads the target function, apply or not: an exception ends the
\* process, and so does the end of the script when apply is false
SubprocessLoad(id) ==
  /\ pc[id] = "written"
  /\ pc' = [pc EXCEPT ![id] =
              IF LoadFunc(encoded.stage.function, app.module, app.qualname, app.rebound) # NoErr THEN "crashed"
              ELSE IF procs[id].apply THEN "loaded" ELSE "exited"]
  /\ procs' = [procs EXCEPT ![id].S =
                 IF LoadFunc(encoded.stage.function, app.module, app.qualname, app.rebound) # NoErr
                 THEN SetErr(@, LoadFunc(encoded.stage.function, app.module, app.qualname, app.rebound))
                 ELSE @]
  /\ UNCHANGED <<func, files, execs, waiting, seen>>
  /\ UNCHANGED procVars
  /\ UNCHANGED encVars

\* the subprocess, A being what controller.apply left
Applied(id, A) ==
  /\ pc' = [pc EXCEPT ![id] = IF Failed(A) THEN "crashed" ELSE "applied"]
  /\ procs' = [procs EXCEPT ![id].S = A]
  /\ UNCHANGED <<func, files, execs, waiting, seen>>
  /\ UNCHANGED procVars
  /\ UNCHANGED encVars

\* if (apply): output = controller.apply(func, views)
SubprocessApply(id) ==
  /\ pc[id] = "loaded"
  /\ func # Hanging
  /\ Applied(id, ControllerApply(func, controller.ids, VList(procs[id].listed),
                                 procs[id].S))

Subprocess(id) ==
  \/ SubprocessList(id) \/ SubprocessOpen(id) \/ SubprocessWrite(id)
  \/ SubprocessLoad(id) \/ SubprocessApply(id)

NextExec ==
  \/ ExecutorExecute \/ ExecutorViews \/ ExecutorViewsReturn \/ ExecutorPoll
  \/ \E id \in ExecIds : Subprocess(id)

SpecExec == InitExec /\ [][NextExec]_vars

\* ---------------------------------- the executor of the staged application
\* executor.views(views) on the application last encoded, up to p.wait(): the
\* subprocess starts from the controller.pickle encode staged
StagedRefresh ==
  /\ encoded.n > 0 /\ encoded.err = NoErr
  /\ waiting = 0 /\ execs < MaxExecs
  /\ \E views \in StagedViews :
       Popen(execs + 1, views, FALSE,
             Loaded(encoded.controls, Controller(encoded.controls), Objects,
                    encoder.copy_controls))
  /\ waiting' = execs + 1
  /\ UNCHANGED seen

NextStage ==
  \/ Encode \/ StagedRefresh \/ ExecutorViewsReturn
  \/ \E id \in ExecIds : \/ SubprocessList(id) \/ SubprocessOpen(id)
                         \/ SubprocessWrite(id) \/ SubprocessLoad(id)

SpecStage == InitStage /\ [][NextStage]_vars

\* the subprocess of execution id is running
Running(id) == pc[id] \notin {"none", "exited", "crashed"}
\* the subprocess of execution id moves on: under NextExec these are the
\* steps of Subprocess(id), which is enabled exactly while it is running
Advance(id) ==
  /\ Running(id)
  /\ \E to \in {"listed", "open", "written", "loaded", "applied", "reopen", "exited",
                "crashed"} \ {pc[id]} :
       pc' = [pc EXCEPT ![id] = to]

\* the operating system runs every started subprocess until it ends
SpecExecFair == SpecExec /\ \A id \in ExecIds : WF_pc(Advance(id))

\* ==================================================================== claims
Parents(id) == {ctl[id].parents[i] : i \in 1..Len(ctl[id].parents)}
HasFunc(id) == ctl[id].update_func # None
FuncIds == {id \in Ids : HasFunc(id)}
ListOps == {"list", "echo", "edit"}

\* the ancestors of a control that _update() reaches: its parents and, through
\* every parent that has an update function, that parent's ancestors
RECURSIVE Ancestors(_)
Ancestors(id) ==
  IF ~HasFunc(id) THEN {}
  ELSE Parents(id) \cup UNION {Ancestors(p) : p \in Parents(id)}

\* the events of the last call
IsEvent(i, e, id) == last.log[i].e = e /\ last.log[i].id = id
FuncEvents(id) == {i \in 1..Len(last.log) : IsEvent(i, "func", id)}
\* the position at which the _update() that is running at position i on
\* control id was entered
Entered(i, id) ==
  CHOOSE j \in 1..i : IsEvent(j, "enter", id)
                      /\ \A k \in (j + 1)..i : ~IsEvent(k, "enter", id)
\* the ids of the views handed to the last call
ViewIds(views) == IF views = None THEN {} ELSE {views.xs[i].id : i \in 1..Len(views.xs)}

\* C1: when _update() invokes a control's update function, the _update() of
\* every parent, and of every ancestor reached through controls with update
\* functions, has been entered and has returned within that same _update()
\* call, and each of them holds no pending view and, if it has an update
\* function, is not dirty.
C1_ParentsFirst ==
  \A i \in 1..Len(last.log) :
    last.log[i].e = "func" =>
      \A a \in Ancestors(last.log[i].id) :
        /\ \E j \in (Entered(i, last.log[i].id) + 1)..(i - 1) : IsEvent(j, "exit", a)
        /\ a \in last.log[i].settled

\* C1 witness: a list call with a view for a control r in which the update
\* function of a child ran after that of its parent, r being a grandparent.
C1_Witness ==
  /\ last.op \in ListOps
  /\ \E c \in Ids : \E p \in Parents(c) : \E r \in Parents(p) :
       /\ r \in ViewIds(last.views)
       /\ FuncEvents(c) # {} /\ FuncEvents(p) # {}
       /\ \A i \in FuncEvents(c) : \E j \in FuncEvents(p) : Entered(i, c) < j /\ j < i

\* C2: in one call (list, view or value) the update function of each control
\* is invoked at most once.
C2_AtMostOncePerCall ==
  \A id \in Ids : Cardinality(FuncEvents(id)) <= 1

\* C2 witness: a successful list call on the diamond in which a's update
\* function ran and a's _update() was entered through several paths.
C2_Witness ==
  /\ last.op \in ListOps /\ last.err = NoErr
  /\ \E a \in Ids :
       /\ Cardinality({c \in Ids : a \in Parents(c)}) >= 2
       /\ Cardinality(FuncEvents(a)) = 1
       /\ Cardinality({i \in 1..Len(last.log) : IsEvent(i, "enter", a)}) >= 4

Returned(id) == \E i \in 1..Len(last.log) : IsEvent(i, "exit", id)

ViewNow(id) == ViewInternal(id, Start).ret

\* the fields of control c itself: _id of its validator belongs to the
\* validator object
OwnFields(c) ==
  IF c.kind = "TextField" THEN [c EXCEPT !.validator_id = None] ELSE c

\* C4: an update function is invoked only when its control is dirty; a control
\* that is not dirty becomes dirty only in a call that hands it a view or finds
\* a pending view on it; a computed control (not dirty, no pending view) that is
\* handed no view keeps its fields in every call, its update function is not
\* invoked, and a list call returns its view as before.
C4_DirtyOnly ==
  /\ [](\A i \in 1..Len(last.log) : last.log[i].e = "func" => last.log[i].dirty)
  /\ [][\A id \in FuncIds :
          (~ctl[id].dirty /\ ctl[id].pending_view = None /\ id \notin ViewIds(last'.views)) =>
             /\ ~ctl'[id].dirty
             /\ OwnFields(ctl'[id]) = OwnFields(ctl[id])
             /\ cnt'[id] = cnt[id]
             /\ (last'.op \in ListOps /\ last'.err = NoErr) =>
                  \E i \in 1..Len(last'.ret.xs) : last'.ret.xs[i] = ViewNow(id)]_vars

\* C4 witness: after the child was computed, a list call handed a view to its
\* parent alone; the parent has the new data and the child still the double of
\* the old.
C4_Witness ==
  /\ last.op = "list" /\ last.err = NoErr /\ calls >= 2
  /\ \E c \in FuncIds : \E p \in Parents(c) :
       /\ ViewIds(last.views) = {p}
       /\ ctl[c].update_func.f = "double"
       /\ ~ctl[c].dirty
       /\ PyInt(ctl[p].data).ok
       /\ ctl[c].data # VStr(IntToStr(PyInt(ctl[p].data).n * 2))
       /\ FuncEvents(c) = {}

\* C5 as stated: controller.list(controller.list()) completes without error
\* and returns views equal to those handed back.
C5_Original ==
  last.op = "echo" => (last.err = NoErr /\ last.ret = last.views)

\* the controls handed to Controller(...)
Given == {controller.ids[i] : i \in 1..Len(controller.ids)}
ApplyViews_(views) == {i \in 1..Len(views.xs) : views.xs[i].type = "ApplyView"}

\* C6 as stated: a Controller built from a list without Apply returns an Apply
\* view from list() iff one of its controls has parents or is not finite-state.
C6_Original ==
  (/\ \A id \in Given : ctl[id].kind # "Apply"
   /\ last.op = "list" /\ last.err = NoErr) =>
    (ApplyViews_(last.ret) # {} <=> \E id \in Given : is_apply_required(ctl[id]))

\* control.value() returns normally, with a value that is not None
HasValue(id) ==
  LET R == Value(id, Start) IN ~Failed(R) /\ R.ret # None

\* C7: in every result of list the Apply view is enabled iff every other
\* control that is not optional has a value() that is not None after the call.
C7_ApplyGate ==
  (last.op \in ListOps /\ last.err = NoErr) =>
    \A i \in ApplyViews_(last.ret) :
      /\ last.ret.xs[i].enabled \in {VBool(TRUE), VBool(FALSE)}
      /\ last.ret.xs[i].enabled = VBool(TRUE) <=>
           \A id \in Ids \ {last.ret.xs[i].id} : ~Truthy(ctl[id].optional) => HasValue(id)

\* C7 witness: the Apply control is registered first; a list call handed a view
\* to a control that is not optional and returned Apply enabled, while an
\* optional control has the value None.
C7_Witness ==
  /\ last.op \in ListOps /\ last.err = NoErr
  /\ last.ret.xs[1].type = "ApplyView" /\ last.ret.xs[1].enabled = VBool(TRUE)
  /\ \E id \in ViewIds(last.views) : ~Truthy(ctl[id].optional) /\ ctl[id].kind # "Apply"
  /\ \E id \in Ids : Truthy(ctl[id].optional) /\ ~HasValue(id)

\* C8 as stated: a control.apply(view) that fails raises ValidationError with
\* the control's id and changes no field of any control; a successful one
\* stores the view as the pending view; value() and view(), which run
\* _update(), neither raise ValidationError nor change a validated value.
C8_Original ==
  /\ [][(last'.op = "apply" /\ last'.err # NoErr) =>
          (last'.err = Err("ValidationError", last'.id) /\ ctl' = ctl /\ cnt' = cnt)]_vars
  /\ [][(last'.op = "apply" /\ last'.err = NoErr) =>
          ctl'[last'.id].pending_view = last'.views.xs[1]]_vars
  /\ [][last'.op \in {"value", "view"} =>
          /\ last'.err.t # "ValidationError"
          /\ \A id \in Ids : ctl[id].kind = "TextField" =>
               ctl'[id].validated_value = ctl[id].validated_value]_vars

\* C9 as stated: after apply(view) succeeded with data s on a TextField with
\* an int validator, value() returns int(s).
C9_Original ==
  (/\ last.op = "apply" /\ last.err = NoErr
   /\ ctl[last.id].kind = "TextField" /\ ctl[last.id].validator = IntV) =>
    Value(last.id, Start).ret = VInt(PyInt(last.views.xs[1].data).n)

\* the view at position i of the list is accepted by the validator of its
\* control
Accepted(views, i) ==
  LET c == ctl[views.xs[i].id]
  IN c.kind # "TextField" \/ c.validator = None
       \/ ValidatorFunc(c.validator.s, views.xs[i].data).ok

\* C10 as stated: an UpdateError carries the id of the control whose update
\* function threw, which is the last one invoked; a ValidationError carries the
\* id of the control whose validator rejected a view, the first view of the
\* list that is not accepted.
C10_Original ==
  /\ last.err.t = "UpdateError" =>
       /\ Len(last.log) > 0
       /\ IsEvent(Len(last.log), "func", last.err.id)
  /\ last.err.t = "ValidationError" =>
       \E i \in 1..Len(last.views.xs) :
         /\ last.views.xs[i].id = last.err.id
         /\ ~Accepted(last.views, i)
         /\ \A j \in 1..(i - 1) : Accepted(last.views, j)

\* the update function of control id is invoked in the next call
InvokedNext(id) ==
  \E i \in 1..Len(last'.log) : last'.log[i].e = "func" /\ last'.log[i].id = id

\* C11 as stated: after the update function of a control threw, every
\* subsequent Controller.list() invokes it again.
C11_Original ==
  [][\A id \in FuncIds :
       (last.err = Err("UpdateError", id) /\ last'.op \in ListOps) => InvokedNext(id)]_vars

\* C11 amended: a control whose update function threw stays dirty; a list()
\* on a Controller with a dirty control that has an update function either
\* invokes that function or fails before it reaches it, at another control (a
\* view that is rejected or another control's update function); an invocation
\* that fails leaves the control dirty, one that succeeds leaves it not dirty,
\* and from then on the function is invoked only in a call that hands the
\* control a view or finds a pending view on it.
C11_RetriedUntilSuccess ==
  /\ [](last.err.t = "UpdateError" => ctl[last.err.id].dirty)
  /\ [][\A id \in FuncIds :
          /\ (ctl[id].dirty /\ last'.op \in ListOps
                /\ last'.err \in {NoErr, Err("UpdateError", id)}) => InvokedNext(id)
          /\ (InvokedNext(id) /\ last'.err = NoErr) => ~ctl'[id].dirty
          /\ (~ctl[id].dirty /\ ctl[id].pending_view = None
                /\ id \notin ViewIds(last'.views)) => ~InvokedNext(id)]_vars

\* C11 witness: the second of two calls is a list that handed the control no
\* view and invoked its update function for the second time, with success:
\* the first invocation had failed.
C11_Witness ==
  /\ calls = 2 /\ last.op \in ListOps /\ last.err = NoErr
  /\ \E id \in FuncIds :
       /\ cnt[id] = 2
       /\ FuncEvents(id) # {}
       /\ id \notin ViewIds(last.views)
       /\ ~ctl[id].dirty

\* the Apply controls among the controls handed to Controller(...)
GivenApply == {i \in 1..Len(controller.ids) : ctl[controller.ids[i]].kind = "Apply"}

\* C17: Controller(...) of a list with more than one Apply control raises (a
\* ValueError); a Controller that was constructed holds at most one Apply
\* control, and the synthesized one only when none was handed in.
C17_AtMostOneApply ==
  /\ Cardinality(GivenApply) >= 2 => controller.err.t = "ValueError"
  /\ controller.err = NoErr =>
       /\ Cardinality({i \in 1..Len(controller.map) : ctl[controller.map[i]].kind = "Apply"}) <= 1
       /\ controller.synth => GivenApply = {}
       /\ (last.op \in ListOps /\ last.err = NoErr) => Cardinality(ApplyViews_(last.ret)) <= 1

\* C17 witness: the construction from a list with two Apply controls and
\* another control between them has failed.
C17_Witness ==
  /\ Cardinality(GivenApply) = 2
  /\ Len(controller.ids) = 3
  /\ controller.err.t = "ValueError"

\* the views handed to the last call
Handed == IF last.views = None THEN <<>> ELSE last.views.xs
\* the Controller holds a control with the id of the i-th view handed in
Known(i) == \E j \in 1..Len(controller.map) : controller.map[j] = Handed[i].id
\* the i-th view handed in makes apply() raise
Refused(i) == ~Known(i) \/ ~Accepted(last.views, i)
\* the i-th view handed in shows in control c and in the view w returned for it
Shows(c, v, w) ==
  CASE c.kind = "TextField" -> c.update_func # None \/ (c.data = v.data /\ w.data = v.data)
    [] c.kind \in {"ComboBox", "Slider"} -> c.selected = v.selected /\ w.selected = v.selected
    [] c.kind = "FileUpload" -> c.stream = v.stream /\ c.is_text = v.is_text
    [] OTHER -> TRUE

\* C18: a list(views) in which some view has an unknown id or is rejected
\* raises at the first such view (KeyError of the id, ValidationError of the
\* validator of that control); a
\* list(views) that returns has applied every view to the control of its id
\* before it took the views, and returns one view per control of the map, in
\* insertion order (the controls as handed to Controller(...), a synthesized
\* Apply last), each of its control's kind and id.
C18_ListContract ==
  last.op \in ListOps =>
    /\ controller.map = controller.ids \o (IF controller.synth THEN <<SynthId>> ELSE <<>>)
    /\ \A i \in 1..Len(Handed) :
         (Refused(i) /\ \A j \in 1..(i - 1) : ~Refused(j)) =>
            last.err = IF Known(i)
                       THEN Err("ValidationError", ctl[Handed[i].id].validator_id.s)
                       ELSE Err("KeyError", Handed[i].id)
    /\ last.err = NoErr =>
         /\ Len(last.ret.xs) = Len(controller.map)
         /\ \A i \in 1..Len(controller.map) :
              /\ last.ret.xs[i].id = controller.map[i]
              /\ last.ret.xs[i].type = ViewTypeOf(ctl[controller.map[i]].kind)
         /\ \A i \in 1..Len(Handed) :
              /\ ctl[Handed[i].id].pending_view = None
              /\ \E k \in 1..Len(last.ret.xs) :
                   /\ last.ret.xs[k].id = Handed[i].id
                   /\ Shows(ctl[Handed[i].id], Handed[i], last.ret.xs[k])

\* C18 witness: a list with an edited view returned three views, the last one
\* that of the synthesized Apply, and the edit shows in the view returned.
C18_Witness ==
  /\ last.op = "edit" /\ last.err = NoErr
  /\ controller.synth /\ Len(last.ret.xs) = 3
  /\ last.ret.xs[3].type = "ApplyView"
  /\ \E i \in 1..2 :
       /\ last.ret.xs[i].type = "TextFieldView"
       /\ last.views.xs[i].data = VStr("2")
       /\ last.ret.xs[i].data = VStr("2")

\* the invocations of the target function in the last call
FuncCalls == {i \in 1..Len(last.log) : last.log[i].e = "call"}

\* C19: Controller.apply(func, views) invokes func at most once; when it
\* returns, it has applied the views, has invoked func once, after every
\* value() was taken, with the value() of each control handed to
\* Controller(...), in that order and with nothing for a synthesized Apply, and
\* returns what func returned; when it raises, func was not invoked.
C19_ApplyCallsFunc ==
  last.op = "call" =>
    /\ Cardinality(FuncCalls) <= 1
    /\ last.err # NoErr => FuncCalls = {}
    /\ last.err = NoErr =>
         /\ FuncCalls = {Len(last.log)}
         /\ Len(last.log[Len(last.log)].args) = Len(controller.ids)
         /\ \A i \in 1..Len(controller.ids) :
              /\ ctl[controller.ids[i]].pending_view = None
              /\ last.log[Len(last.log)].args[i] = Value(controller.ids[i], Start).ret
         /\ last.ret = TargetFunc(last.log[Len(last.log)].args)
         /\ \A i \in 1..Len(Handed) :
              \/ ctl[Handed[i].id].pending_view = Handed[i]
              \/ Shows(ctl[Handed[i].id], Handed[i], ViewNow(Handed[i].id))

\* C19 witness: Controller.apply with the three views of list(), that of the
\* synthesized Apply among them, called func with the two validated integers.
C19_Witness ==
  /\ last.op = "call" /\ last.err = NoErr
  /\ controller.synth
  /\ Len(Handed) = 3
  /\ last.ret = TargetFunc(<<VInt(1), VInt(2)>>)

\* ---- the last encode: the parameters whose iteration _check_optional ran in
\* parameter i was reached by the loop
Reached(i) == encoded.at = 0 \/ i <= encoded.at
\* the control bound to parameter i as the encoder found it
GivenControl(i) == encoded.given[app.sig[i].name]
\* parameter i is annotated and bound to a control: _check_optional ran for it
Checked(i) ==
  /\ encoded.n > 0 /\ Reached(i)
  /\ app.sig[i].name \in DOMAIN encoded.given
  /\ app.sig[i].annotation # Empty
  /\ IsControl(GivenControl(i))
\* the optionality the encoder derives for parameter i
IsOptional(i) == SplitType(app.sig[i].annotation)[1]
\* _check_optional raised for parameter i
Refusal(i) ==
  /\ encoded.at = i
  /\ encoded.err = Err("ValueError", "Parameter '" \o app.sig[i].name
                                        \o "' is not optional but the control is")
\* the control the iteration for parameter i ended with
Reconciled(i) ==
  encoded.values[CHOOSE k \in 1..Len(encoded.values) :
                   encoded.values[k].name = app.sig[i].name].value
\* the iteration for parameter i ended with a control whose optional is o
EndsWith(i, o) ==
  /\ encoded.at # i
  /\ \E k \in 1..Len(encoded.values) : encoded.values[k].name = app.sig[i].name
  /\ Reconciled(i).optional = o
\* control and parameter disagree
Disagree(i) ==
  GivenControl(i).optional # None /\ GivenControl(i).optional.b # IsOptional(i)

\* C20 as stated: an unset control adopts the parameter's optionality; in
\* strict mode a disagreement in either direction fails the encoding; in all
\* other cases the control ends non-optional unless both are optional.
C20_Original ==
  \A i \in 1..Len(app.sig) : Checked(i) =>
    /\ GivenControl(i).optional = None => EndsWith(i, VBool(IsOptional(i)))
    /\ (encoder.strict_type_check /\ Disagree(i)) => Refusal(i)
    /\ (GivenControl(i).optional # None
          /\ ~(encoder.strict_type_check /\ Disagree(i)))
         => EndsWith(i, VBool(GivenControl(i).optional.b /\ IsOptional(i)))

\* C20 amended: a control whose optional is unset adopts the optionality the
\* encoder derives from the parameter's annotation; a control whose optional
\* is set keeps it; the encoding fails for the disagreement, with a
\* ValueError, exactly when strict mode is on, the control is optional and the
\* parameter is not: a non-optional control bound to an optional parameter is
\* accepted in either mode.
C20_Reconciliation ==
  \A i \in 1..Len(app.sig) : Checked(i) =>
    /\ GivenControl(i).optional = None => EndsWith(i, VBool(IsOptional(i)))
    /\ GivenControl(i).optional # None =>
         /\ Refusal(i) <=> /\ encoder.strict_type_check
                           /\ GivenControl(i).optional.b /\ ~IsOptional(i)
         /\ ~Refusal(i) => EndsWith(i, GivenControl(i).optional)

\* C20 witness: in strict mode a non-optional control bound to an optional
\* parameter was encoded without an error and is still non-optional.
C20_Witness ==
  \E i \in 1..Len(app.sig) :
    /\ Checked(i) /\ encoder.strict_type_check
    /\ GivenControl(i).optional = VBool(FALSE) /\ IsOptional(i)
    /\ encoded.err = NoErr
    /\ EndsWith(i, VBool(FALSE))

\* C21: when a parameter of the function has no control bound to its name,
\* encode ends with an error, the ValueError "Control ... is not bound" when
\* nothing before that parameter was refused, and has staged no file and
\* made no archive.
C21_UnboundRefused ==
  (encoded.n > 0 /\ \E i \in 1..Len(app.sig) : app.sig[i].name \notin DOMAIN encoded.given) =>
    /\ encoded.err # NoErr
    /\ encoded.stage.files = {} /\ ~encoded.stage.archived
    /\ encoded.stage.function = None
    /\ (\A i \in 1..Len(app.sig) : ~Refusal(i)) =>
         encoded.err = Err("ValueError", "Control '"
                             \o app.sig[encoded.at].name \o "' is not bound")

\* C21 witness: the first parameter was bound and checked, the second has no
\* control: encode raised for the second and staged nothing.
C21_Witness ==
  /\ encoded.n > 0 /\ Len(app.sig) = 2 /\ encoded.at = 2
  /\ Checked(1)
  /\ app.sig[2].name \notin DOMAIN encoded.given
  /\ encoded.err = Err("ValueError", "Control 'y' is not bound")
  /\ encoded.stage.files = {}

\* C22 as stated: the function is stored in pickle mode exactly when the
\* force_serialization flag is set, or some calling frame belongs to the
\* function's module, or some calling frame has no module; in source mode
\* otherwise.
C22_Original ==
  (encoded.n > 0 /\ encoded.err = NoErr) =>
    /\ encoded.stage.function.type \in {"pickle", "source"}
    /\ encoded.stage.function.type = "pickle" <=>
         \/ encoder.force_serialization
         \/ \E i \in 1..Len(app.frames) : app.frames[i] = app.module
         \/ \E i \in 1..Len(app.frames) : app.frames[i] = NoModule

\* the ids of the controls of the staged Controller
StagedIds == {encoded.controls[i].id : i \in 1..Len(encoded.controls)}

\* C23 (as stated): for every view of every kind, pack() yields a record with
\* id, enabled, label, a boolean optional, type equal to the kind's name and
\* the kind's fields, and unpack_view(pack(v)) yields a view of the same kind
\* with the same field values.
KindFields(type) ==
  CASE type = "TextFieldView" -> {"data"}
    [] type = "ComboBoxView" -> {"titles", "selected"}
    [] type = "SliderView" -> {"data", "selected"}
    [] type = "FileUploadView" -> {"is_text"}
    [] OTHER -> {}
C23_Original ==
  /\ last.op \in {"pack", "unpack"} =>
       LET v == last.views.xs[1]
           p == IF last.op = "pack" THEN last.ret ELSE last.ret.packed
       IN /\ DOMAIN p = {"id", "enabled", "label", "optional", "type"}
                          \cup KindFields(v.type)
          /\ p.id = v.id /\ p.enabled = v.enabled /\ p.label = v.label
          /\ p.optional \in {VBool(TRUE), VBool(FALSE)}
          /\ p.type = v.type
          /\ \A f \in KindFields(v.type) : p[f] = v[f]
  /\ last.op = "unpack" =>
       /\ last.err = NoErr
       /\ last.ret.view.type = last.views.xs[1].type
       /\ \A f \in DOMAIN last.ret.packed : last.ret.view[f] = last.views.xs[1][f]

\* the diamond a -> {b, c} -> d, a having an update function
Diamond ==
  /\ {"a", "b", "c", "d"} \subseteq Ids
  /\ HasFunc("a")
  /\ Parents("b") = {"a"} /\ Parents("c") = {"a"} /\ Parents("d") = {"b", "c"}
\* the step is a Controller.list call
ListCall == calls' = calls + 1 /\ last'.op \in ListOps

\* C24 (as stated): in the diamond every Controller.list() call that applies no
\* view to a increments the counter of a's update function by exactly one.
C24_Original ==
  [][(Diamond /\ ListCall /\ "a" \notin ViewIds(last'.views)) =>
       cnt'["a"] = cnt["a"] + 1]_vars

\* C24 amended: in the diamond a Controller.list() call increments the counter
\* of a's update function by at most one; by exactly one when the call
\* succeeds and a is dirty in it (never computed, handed a view by this call,
\* or holding a pending view of a failed call), and by zero when a is computed
\* and gets no view.
C24_OncePerDirty ==
  [][(Diamond /\ ListCall) =>
       /\ cnt'["a"] \in {cnt["a"], cnt["a"] + 1}
       /\ (last'.err = NoErr /\ (ctl["a"].dirty \/ ctl["a"].pending_view # None
                                   \/ "a" \in ViewIds(last'.views)))
            => cnt'["a"] = cnt["a"] + 1
       /\ (~ctl["a"].dirty /\ ctl["a"].pending_view = None
             /\ "a" \notin ViewIds(last'.views))
            => cnt'["a"] = cnt["a"]]_vars

\* C24 witness: in the diamond, a third successful list without a view for a,
\* after a's function ran once in the first list and once more for a view.
C24_Witness ==
  /\ Diamond /\ calls >= 3 /\ last.op \in ListOps /\ last.err = NoErr
  /\ "a" \notin ViewIds(last.views)
  /\ cnt["a"] = 2
  /\ \A i \in 1..Len(last.log) : ~(last.log[i].e = "func" /\ last.log[i].id = "a")
  /\ Cardinality({i \in 1..Len(last.log) : IsEvent(i, "enter", "a")}) >= 4

\* C25 (as stated): Controller.apply calls func only when the Apply gate is
\* open, that is when every control other than the Apply control that is not
\* optional has a value() that is not None.
C25_Original ==
  (last.op = "call" /\ FuncCalls # {}) =>
    \A id \in Ids : (ctl[id].kind # "Apply" /\ ~Truthy(ctl[id].optional)) => HasValue(id)

\* C30 as stated: the re-link step of a subprocess never fails, and after it
\* every parent of every control of the map is a control of the map.
C30_Original ==
  \A id \in ExecIds :
    pc[id] \notin {"none", "start"} =>
      /\ procs[id].S.err.t # "KeyError"
      /\ \A k \in StagedIds : \A i \in 1..Len(procs[id].S.ctl[k].parents) :
           procs[id].S.ctl[k].parents[i] \in StagedIds

\* ---- executions
File(id) == files[ExecutionFile(id)]
Crashed(id) == pc[id] = "crashed"
Exited(id) == pc[id] = "exited"
\* the record of execution id is FINISHED with an output
Finished(id) ==
  /\ File(id).status = "finished"
  /\ File(id).output # None

\* C13 as stated: after any exception in the subprocess the record of the
\* execution eventually has status FAILED and non-null logs.
C13_Original ==
  \A id \in ExecIds :
    Crashed(id) ~> (File(id).status = "failed" /\ Get(File(id), "logs") # None)

\* C14 as stated: when views(submitted) returns, the record is READY without
\* an output, the views returned are those of Controller.list(submitted) on
\* the Controller of controller.pickle, and the target function was not
\* invoked.
C14_Original ==
  seen.op = "views" =>
    /\ seen.err = NoErr
    /\ File(seen.id).status = "ready"
    /\ File(seen.id).output = None
    /\ seen.ret = ControllerList(procs[seen.id].views, Start).ret
    /\ \A i \in 1..Len(procs[seen.id].S.log) : procs[seen.id].S.log[i].e # "call"

\* C15 as stated: poll of an id whose record does not exist returns an
\* Execution with status SCHEDULED and no views or output.
C15_Original ==
  (seen.op = "poll" /\ File(seen.id) = Absent) =>
    /\ seen.err = NoErr
    /\ seen.ret # None
    /\ seen.ret.status = "scheduled"
    /\ seen.ret.views = <<>>
    /\ seen.ret.output = None

\* the record execution id ends with when it runs alone
AloneListed(id) ==
  ScriptList(WriteViews([i \in ExecIds |-> Absent], id, procs[id].views)[ExecutionFile(id)],
             Start)
AloneRecord(id) ==
  IF procs[id].apply
  THEN Record("finished", AloneListed(id).ret.xs,
              Str(ControllerApply(func, controller.ids, AloneListed(id).ret,
                                  AloneListed(id)).ret))
  ELSE Record("ready", AloneListed(id).ret.xs, None)

\* controller.list returns, the target function loads and controller.apply,
\* the target function included, returns in the subprocess of execution id
Succeeds(id) ==
  /\ ~Failed(AloneListed(id))
  /\ LoadFunc(encoded.stage.function, app.module, app.qualname, app.rebound) = NoErr
  /\ ~Failed(ControllerApply(func, controller.ids, AloneListed(id).ret, AloneListed(id)))

\* C12: an execution started with apply = true in which controller.list
\* returns and the target function is loaded and returns reaches the record
\* FINISHED with a non-null output, which poll(id) returns: the subprocess
\* of every execution ends; it ends in an exception only when one of these
\* raised; and an apply execution that ended without one has that record.
C12_ApplyFinishes ==
  /\ <>[](\A id \in ExecIds : ~Running(id))
  /\ [](\A id \in ExecIds :
          /\ Crashed(id) => Failed(procs[id].S) /\ ~Succeeds(id)
          /\ (Exited(id) /\ procs[id].apply) =>
               /\ Succeeds(id)
               /\ Finished(id)
               /\ Poll(files, id).err = NoErr
               /\ Poll(files, id).ret.status = "finished"
               /\ Poll(files, id).ret.output # None)

\* C12 witness: poll returned FINISHED with the output of the target function
\* called with the two validated integers.
C12_Witness ==
  /\ seen.op = "poll" /\ seen.err = NoErr /\ seen.ret # None
  /\ procs[seen.id].apply /\ Exited(seen.id)
  /\ seen.ret.status = "finished"
  /\ seen.ret.output = Str(TargetFunc(<<VInt(1), VInt(2)>>))

\* C16: a record changes only in a step of its own execution (the call that
\* starts it or its subprocess); poll changes no record; and the record an
\* execution ends with is the one it ends with when it runs alone.
C16_NoInterference ==
  /\ [][\A id \in ExecIds :
          files'[ExecutionFile(id)] # files[ExecutionFile(id)] => pc'[id] # pc[id]]_vars
  /\ [][(seen' # seen /\ seen'.op = "poll") => files' = files]_vars
  /\ [](\A id \in ExecIds : Exited(id) => File(id) = AloneRecord(id))

\* C16 witness: the second execution has ended with its record while the
\* subprocess of the first, started before it, is still writing its own.
C16_Witness ==
  /\ Exited(2) /\ procs[2].apply /\ Finished(2)
  /\ pc[1] = "open" /\ File(1) = Torn

\* execution id was started by execute(views), that is with apply = true
Executed(id) == pc[id] # "none" /\ procs[id].apply
\* the order of the statuses of an execution
Rank(status) ==
  CASE status = "scheduled" -> 0
    [] status = "running" -> 1
    [] status \in {"finished", "failed"} -> 2
    [] OTHER -> -1
\* the step is a poll of execution id that returned r = [err, ret]
PollOf(id) == seen' # seen /\ seen'.op = "poll" /\ seen'.id = id
\* the last call was a poll of execution id that returned an Execution
Polled(id) == seen.op = "poll" /\ seen.id = id /\ seen.err = NoErr /\ seen.ret # None

\* C26 (as stated): every poll of an execution started by execute returns an
\* Execution whose status is SCHEDULED, RUNNING, FINISHED or FAILED; of two
\* successive polls of one id the later status is not behind the earlier one;
\* and after FINISHED or FAILED was observed the next poll returns the same
\* status, views and output.
C26_Original ==
  [][\A id \in ExecIds : (Executed(id) /\ PollOf(id)) =>
       /\ seen'.err = NoErr /\ seen'.ret # None
       /\ Rank(seen'.ret.status) >= 0
       /\ Polled(id) => Rank(seen.ret.status) <= Rank(seen'.ret.status)
       /\ (Polled(id) /\ Rank(seen.ret.status) = 2) => seen'.ret = seen.ret]_vars

\* C27 (as stated): once execute(views) returned, the record of the new
\* execution exists, its status is never READY, and it is SCHEDULED until the
\* subprocess writes.
C27_Original ==
  \A id \in ExecIds : Executed(id) =>
    /\ File(id) # Absent
    /\ File(id).status # "ready"
    /\ pc[id] = "start" => File(id).status = "scheduled"

\* C28 (as stated): a poll never reads an empty or truncated record.
C28_Original ==
  seen.op = "poll" => seen.err.t # "JSONDecodeError"

\* the target function was invoked in state S of a subprocess
Called(S) == \E i \in 1..Len(S.log) : S.log[i].e = "call"

\* C29: in an apply execution the target function is invoked only while the
\* record is RUNNING with the views controller.list returned and no output; a
\* record is FINISHED only after controller.apply returned, the subprocess
\* having invoked the function without an exception; and a FINISHED record
\* carries the output str(what the function returned).
C29_RunningThenFinished ==
  /\ [][\A id \in ExecIds :
          (~Called(procs[id].S) /\ Called(procs'[id].S)) =>
            /\ procs[id].apply
            /\ File(id) = Record("running", procs[id].listed, None)]_vars
  /\ [](\A id \in ExecIds :
          File(id).status = "finished" =>
            /\ procs[id].apply /\ Exited(id)
            /\ Called(procs[id].S) /\ ~Failed(procs[id].S)
            /\ File(id).output = Str(procs[id].S.ret))

\* C29 witness: an apply execution with submitted views has ended, the
\* function was invoked and the record is FINISHED with an output.
C29_Witness ==
  \E id \in ExecIds :
    /\ Executed(id) /\ Exited(id) /\ procs[id].views # None
    /\ Called(procs[id].S)
    /\ File(id).status = "finished" /\ File(id).output # None
    /\ Len(File(id).views) = 3

\* the parents of control id as the controls are now
ParentsNow(id) == [i \in 1..Len(ctl[id].parents) |-> ctl[ctl[id].parents[i]]]
\* the data of control id is what its update function computes from its
\* parents as they are now
Recomputed(id) ==
  LET r == UpdateFunc(ctl[id].update_func.f, ctl[id], ParentsNow(id), 0)
  IN r.ok /\ r.c.data = ctl[id].data
\* the view handed to the last call for control id
HandedFor(id) == Handed[CHOOSE i \in 1..Len(Handed) : Handed[i].id = id]
\* the view the last list returned for control id
ReturnedFor(id) == last.ret.xs[CHOOSE i \in 1..Len(last.ret.xs) : last.ret.xs[i].id = id]

\* C31: when a list(views) that returns carried a view for a control c with an
\* update function and a view for a parent p of c, the update function of c
\* ran in that call after p's _update() had returned with p's pending view
\* applied, the parent holds what its view carried, and the data of c and the
\* view returned for c are computed from the parents as they are after the
\* call, whatever the registration order.
C31_ParentAppliedFirst ==
  (last.op \in ListOps /\ last.err = NoErr) =>
    \A c \in FuncIds \cap ViewIds(last.views) :
      \A p \in Parents(c) \cap ViewIds(last.views) :
        /\ \E i \in FuncEvents(c) :
             /\ p \in last.log[i].settled
             /\ \E j \in (Entered(i, c) + 1)..(i - 1) : IsEvent(j, "exit", p)
        /\ ctl[p].pending_view = None
        /\ Shows(ctl[p], HandedFor(p), ReturnedFor(p))
        /\ Recomputed(c)
        /\ ReturnedFor(c) = ViewNow(c)

\* C31 witness: test_combo_box, the child registered before its parent; the
\* views of list() came back with the parent's selection changed to 1 and the
\* child's titles are those of the second item.
C31_Witness ==
  /\ last.op = "edit" /\ last.err = NoErr
  /\ controller.ids = <<"c1", "cb">>
  /\ HandedFor("cb").selected = VInt(1)
  /\ ctl["cb"].selected = VInt(1)
  /\ ReturnedFor("c1").titles = VList(<<VStr("W 1"), VStr("W 2")>>)

\* ------------------------------------ Controller.list(), one frame at a time
\* the depth of nested calls at which the interpreter raises RecursionError
RecursionLimit == 8
\* number of list() calls made one frame at a time
MaxLists == 2

\* a frame of the call in progress: list() at position i of the map, _update()
\* of control id before its i-th parent (0: the pending view is not applied
\* yet), or the scan of Apply._view() at position i of the map
Frame(f, id, i, ph) == [f |-> f, id |-> id, i |-> i, ph |-> ph]
Top == stack[Len(stack)]
Below == SubSeq(stack, 1, Len(stack) - 1)

\* the step left the interpreter in S: an exception in flight unwinds every
\* frame and ends the call, otherwise the frames are stk and the views
\* collected so far are ret; the call returns when no frame is left
Goes(S, stk, ret) ==
  /\ ctl' = S.ctl
  /\ cnt' = S.cnt
  /\ stack' = IF Failed(S) THEN <<>> ELSE stk
  /\ calls' = IF Failed(S) \/ stk = <<>> THEN calls + 1 ELSE calls
  /\ last' = IF Failed(S) THEN [last EXCEPT !.op = "list", !.err = S.err, !.ret = None]
             ELSE [last EXCEPT !.op = IF stk = <<>> THEN "list" ELSE "running",
                               !.ret = ret]
  /\ UNCHANGED <<controller, edits, quiet>>
  /\ UNCHANGED encVars
  /\ UNCHANGED execVars

\* variant: a control whose _update() is in progress is not entered again
EnteringOnce(stk, fr) ==
  IF \E n \in 1..Len(stk) : stk[n].f = "update" /\ stk[n].id = fr.id
  THEN Goes(Start, stk, last.ret)
  ELSE IF Len(stk) >= RecursionLimit
  THEN Goes(SetErr(Start, Err("RecursionError", fr.id)), stk, last.ret)
  ELSE Goes(Start, Append(stk, fr), last.ret)

\* a call is made from the frames stk: p._update() has no guard of its own,
\* the interpreter refuses the frame beyond its recursion limit
Entering(stk, fr) ==
  IF Len(stk) >= RecursionLimit
  THEN Goes(SetErr(Start, Err("RecursionError", fr.id)), stk, last.ret)
  ELSE Goes(Start, Append(stk, fr), last.ret)

\* controller.list() is called
ListBegin ==
  /\ stack = <<>>
  /\ controller.err = NoErr
  /\ calls < MaxLists
  /\ stack' = <<Frame("list", "", 1, "call")>>
  /\ last' = [op |-> "running", id |-> "", views |-> None, err |-> NoErr,
              ret |-> VList(<<>>), log |-> <<>>]
  /\ UNCHANGED <<ctl, controller, cnt, calls, edits, quiet>>
  /\ UNCHANGED encVars
  /\ UNCHANGED execVars

\* the view of control id was made: values.append(c.view())
ListViewMade(id, V) ==
  Goes(V, Append(Below, Frame("list", "", Top.i + 1, "call")),
       VList(Append(last.ret.xs, V.ret)))

\* for c in self.map.values(): c.view(), which is c._update() and then
\* c._view()
ListStep ==
  /\ stack # <<>>
  /\ Top.f = "list"
  /\ IF Top.ph = "call"
     THEN IF Top.i > Len(controller.map) THEN Goes(Start, <<>>, last.ret)
          ELSE Entering(Append(Below, [Top EXCEPT !.ph = "view"]),
                        Frame("update", controller.map[Top.i], 0, ""))
     ELSE IF ctl[controller.map[Top.i]].kind = "Apply"
          THEN Entering(stack, Frame("scan", controller.map[Top.i], 1, "call"))
          ELSE ListViewMade(controller.map[Top.i], ViewInternal(controller.map[Top.i], Start))

\* Control._update(): the pending view, then every parent's _update(), then
\* the control's own update function
UpdateStep ==
  /\ stack # <<>>
  /\ Top.f = "update"
  /\ IF Top.i = 0
     THEN Goes(ApplyPending(Top.id, Start), Append(Below, [Top EXCEPT !.i = 1]), last.ret)
     ELSE IF ctl[Top.id].update_func = None THEN Goes(Start, Below, last.ret)
     ELSE IF Top.i <= Len(ctl[Top.id].parents)
     THEN Entering(Append(Below, [Top EXCEPT !.i = Top.i + 1]),
                   Frame("update", ctl[Top.id].parents[Top.i], 0, ""))
     ELSE Goes(InvokeUpdateFunc(Top.id, Start), Below, last.ret)

\* Apply._view() returns ApplyView(self._id, enabled, ...) to list()
ScanDone(enabled) ==
  Goes(Start,
       Append(SubSeq(Below, 1, Len(Below) - 1),
              Frame("list", "", Below[Len(Below)].i + 1, "call")),
       VList(Append(last.ret.xs,
                    ApplyView(Top.id, VBool(enabled), ctl[Top.id].label, VBool(FALSE)))))

\* the value of the control at position Top.i was computed
ScanValued(V) ==
  IF Failed(V) THEN Goes(V, stack, last.ret)
  ELSE IF V.ret = None THEN ScanDone(FALSE)
  ELSE Goes(V, Append(Below, [Top EXCEPT !.i = Top.i + 1, !.ph = "call"]), last.ret)

\* the scan of Apply._view() over the controls: c.value() is c._update() and
\* then c._value()
ScanStep ==
  /\ stack # <<>>
  /\ Top.f = "scan"
  /\ IF Top.ph = "value" THEN ScanValued(ValueInternal(controller.map[Top.i], Start))
     ELSE IF Top.i > Len(controller.map) THEN ScanDone(TRUE)
     ELSE IF controller.map[Top.i] = Top.id \/ Truthy(ctl[controller.map[Top.i]].optional)
     THEN Goes(Start, Append(Below, [Top EXCEPT !.i = Top.i + 1]), last.ret)
     ELSE Entering(Append(Below, [Top EXCEPT !.ph = "value"]),
                   Frame("update", controller.map[Top.i], 0, ""))

\* parent lists that close a cycle: the list handed over as depends is kept by
\* the control, so that a control appended to it later becomes a parent
Cycles ==
  { \* a control appended to its own depends list
    <<TextField(VStr("1"), "p", <<>>, None, None),
      TextField(Double, "c2", <<"p", "c2">>, None, None)>>,
    \* two controls with update functions that depend on each other
    <<TextField(VStr("1"), "p", <<>>, None, None),
      TextField(Double, "a", <<"p", "b">>, None, None),
      TextField(Double, "b", <<"a">>, None, None)>>,
    \* a cycle of three controls with update functions
    <<TextField(Double, "a", <<"b">>, None, None),
      TextField(Double, "b", <<"c">>, None, None),
      TextField(Fn("const", 2), "c", <<"a">>, None, None)>>,
    \* a cycle behind a control whose update function raises
    <<TextField(VStr("1"), "p", <<>>, None, None),
      TextField(Fn("raise", 2), "q", <<"p">>, None, None),
      TextField(Double, "a", <<"p", "b">>, None, None),
      TextField(Double, "b", <<"a">>, None, None)>>,
    \* a cycle that runs through a control without update function
    <<TextField(VStr("1"), "p", <<>>, None, None),
      TextField(VStr("2"), "n", <<"p", "m">>, None, None),
      TextField(Double, "m", <<"n">>, None, None)>> }

InitRecurse == InitWith(Scenarios \cup Cycles) /\ NoEncoder /\ NoExecutor

NextRecurse == ListBegin \/ ListStep \/ UpdateStep \/ ScanStep

SpecRecurse == InitRecurse /\ [][NextRecurse]_vars

\* the interpreter runs the call in progress to its end
SpecRecurseFair == SpecRecurse /\ WF_vars(ListStep \/ UpdateStep \/ ScanStep)

\* the controls that _update() of control id reaches within n nested calls
RECURSIVE Climb(_, _)
Climb(id, n) ==
  IF n = 0 \/ ~HasFunc(id) THEN {}
  ELSE Parents(id) \cup UNION {Climb(p, n - 1) : p \in Parents(id)}

\* the parent graph has a cycle through controls that have update functions
Cyclic == \E id \in Ids : id \in Climb(id, Cardinality(Ids))

\* a list() call that ended
ListEnded == last.op = "list" /\ stack = <<>>

\* C32: Controller.list() ends for every acyclic parent graph, within a depth
\* of nested calls that the number of controls bounds and never with
\* RecursionError; a graph with a cycle through controls that have update
\* functions is accepted by the Controller's construction, and no list() call
\* on it returns normally: the recursion goes on until the interpreter's limit
\* whatever that limit is, unless the update function of a control outside
\* the cycle raised before
C32_CycleRecursesWithoutBound ==
  /\ [](~Cyclic => /\ Len(stack) <= Cardinality(Ids) + 2
                   /\ last.err.t # "RecursionError")
  /\ ((~Cyclic /\ stack # <<>>) ~> ListEnded)
  /\ [](Cyclic => /\ controller.err = NoErr
                  /\ ListEnded =>
                       \/ last.err.t = "RecursionError"
                       \/ /\ last.err.t = "UpdateError"
                          /\ last.err.id \notin Climb(last.err.id, Cardinality(Ids)))
  /\ [][(Cyclic /\ last'.err.t = "RecursionError" /\ last.op = "running")
          => Len(stack) = RecursionLimit]_vars

C32_Witness ==
  /\ Cyclic
  /\ controller.ids = <<"p", "a", "b">>
  /\ ListEnded
  /\ calls = 1
  /\ last.err.t = "RecursionError"

\* ------------------------------- executions of a function that may hang
\* the executor with a target function that returns, raises or never returns
InitHang ==
  /\ InitWith(Pickled)
  /\ Decoded
  /\ func \in {Returning, Raising, Hanging}
  /\ files = [id \in ExecIds |-> Absent]
  /\ pc = [id \in ExecIds |-> "none"]
  /\ procs = [id \in ExecIds |-> NoProc]
  /\ execs = 0
  /\ waiting = 0
  /\ seen = [op |-> "none", id |-> 0, err |-> NoErr, ret |-> None]

SpecHang == InitHang /\ [][NextExec]_vars

\* the step starts the subprocess of execution id
Started(id) == pc[id] = "none" /\ pc'[id] # "none"

\* C33: execute(views) returns the execution id in the step that starts the
\* subprocess, before the script has made any step and whether or not the
\* target function ever returns, and leaves the caller free for further
\* calls; views(views) starts its subprocess and returns nothing until that
\* subprocess has exited or crashed, the caller making no other call meanwhile.
C33_ExecuteDoesNotWait ==
  /\ [][\A id \in ExecIds :
          /\ (Started(id) /\ procs'[id].apply) =>
               /\ seen' = [op |-> "execute", id |-> id, err |-> NoErr, ret |-> None]
               /\ waiting' = 0
               /\ pc'[id] = "start"
          /\ (Started(id) /\ ~procs'[id].apply) =>
               /\ waiting' = id
               /\ seen' = seen]_vars
  /\ [][seen' # seen =>
          IF seen'.op = "views"
          THEN waiting # 0 /\ seen'.id = waiting /\ pc[waiting] \in {"exited", "crashed"}
          ELSE waiting = 0]_vars
  /\ [](waiting # 0 => ~procs[waiting].apply /\ \A id \in ExecIds : pc[id] # "none" => id <= waiting)
  /\ [](seen.op = "views" => pc[seen.id] \in {"exited", "crashed"})

\* C33 witness: execute returned the id of an execution whose subprocess is
\* inside a target function that never returns, after a refresh that returned
\* once its subprocess had exited.
C33_Witness ==
  /\ func = Hanging
  /\ seen = [op |-> "execute", id |-> 2, err |-> NoErr, ret |-> None]
  /\ procs[2].apply /\ pc[2] = "loaded"
  /\ ~procs[1].apply /\ pc[1] = "exited"

\* C34 (as stated): a list(views) that fails while applying the views, because
\* one of them is rejected by its control's validator or has an unknown id,
\* leaves the pending view, the data and the validated value of every control
\* as they were, those of the controls whose views came earlier included.
C34_Original ==
  [][(calls' = calls + 1 /\ last'.op \in ListOps
        /\ last'.err.t \in {"ValidationError", "KeyError"}) =>
       \A id \in Ids : \A f \in {"pending_view", "data", "validated_value"} :
         Get(ctl'[id], f) = Get(ctl[id], f)]_vars

\* --------------------------------------- views handed to the wrong control
\* views that do not belong to control c: one of another id, and one with the
\* id of c but of another kind
OtherViews(c) ==
  {UnknownView}
    \cup (IF c.kind = "ComboBox"
          THEN {TextFieldView(c.id, VBool(TRUE), None, None, VStr("2"))}
          ELSE {ComboBoxView(c.id, VBool(TRUE), None, None, VInt(0), None)})

\* control.apply(view) with a view that does not belong to the control
CallApplyOther ==
  /\ CanCall /\ edits < MaxEdits
  /\ \E id \in Ids : \E v \in OtherViews(ctl[id]) :
       Finish("misapply", id, VList(<<v>>), 1, ControlApply(id, v, Start))

SpecOther == Init /\ [][Next \/ CallApplyOther]_vars

\* C35 (as stated): control.apply(view) with a view whose id or kind is not
\* the control's raises and leaves the control as it was, and no later view(),
\* value() or Controller.list() fails because of that view.
C35_Original ==
  /\ [][(calls' = calls + 1 /\ last'.op = "misapply") =>
          /\ last'.err # NoErr
          /\ ctl' = ctl]_vars
  /\ [](last.err.t # "AssertionError")

\* C36 (as stated): value() of a TextField that has a validator and an update
\* function is the validator's result on the data the control holds when
\* value() returns.
C36_Original ==
  (last.op = "value" /\ last.err = NoErr /\ ctl[last.id].kind = "TextField"
     /\ ctl[last.id].validator # None /\ ctl[last.id].update_func # None) =>
    /\ ValidatorFunc(ctl[last.id].validator.s, ctl[last.id].data).ok
    /\ last.ret = ValidatorFunc(ctl[last.id].validator.s, ctl[last.id].data).v

\* C37: after a Controller.list() call that returned, with or without views,
\* no control of the Controller holds a pending view and no control that has
\* an update function is dirty.
C37_ListSettles ==
  (last.op \in ListOps /\ last.err = NoErr) =>
    \A id \in Ids :
      /\ ctl[id].pending_view = None
      /\ HasFunc(id) => ~ctl[id].dirty

\* C37 witness: a list with an edited view returned on the diamond, whose
\* controls had pending views and were dirty during the call.
C37_Witness ==
  /\ last.op = "edit" /\ last.err = NoErr
  /\ controller.ids = <<"a", "b", "c", "d">>
  /\ \A id \in Ids : cnt[id] >= 1 <=> HasFunc(id)
  /\ cnt["d"] = 2

\* C38 (as stated): after a Controller.list(views) that returned, selected of
\* every ComboBox is negative or an index into the control's list, and no
\* call fails with an index error of a ComboBox.
C38_Original ==
  /\ last.err.t = "IndexError" => ctl[last.err.id].kind # "ComboBox"
  /\ (last.op \in ListOps /\ last.err = NoErr) =>
       \A id \in Ids :
         (ctl[id].kind = "ComboBox" /\ HasModel(ctl[id])) =>
           ctl[id].selected.n < Len(GetModel(ctl[id]).data.xs)

\* C39 (as stated): when every parameter of the target function is bound to
\* a control, the Controller a successful encode serializes holds one control
\* per parameter, in parameter order: the
\* control bound to that parameter, whatever its kind and whether or not the
\* parameter is annotated.
C39_Original ==
  (encoded.n > 0 /\ encoded.err = NoErr
     /\ \A i \in 1..Len(app.sig) : IsControl(encoded.given[app.sig[i].name])) =>
    /\ Len(encoded.controls) = Len(app.sig)
    /\ \A i \in 1..Len(app.sig) :
         /\ encoded.controls[i].id = encoded.given[app.sig[i].name].id
         /\ encoded.controls[i].kind = encoded.given[app.sig[i].name].kind

\* C40 (as stated): in one apply execution of the script every control's
\* update function is invoked at most once, controller.list(views) and
\* controller.apply(func, views) taken together.
C40_Original ==
  \A id \in ExecIds :
    procs[id].apply =>
      \A c \in DOMAIN procs[id].S.cnt : procs[id].S.cnt[c] <= 1

====
